---- MODULE Spec2Model ----
(***************************************************************************)
(* A model of the toodee crate: the TooDee grid (src/src/toodee.rs), its   *)
(* constructors, structural mutations and DrainCol, the translate engine   *)
(* (src/src/translate.rs), the sort engine (src/src/sort.rs), the views    *)
(* (src/src/view.rs), the Rows, Col and FlattenExact iterators and their   *)
(* mutable counterparts (src/src/iter.rs, src/src/flattenexact.rs), the    *)
(* row operations (src/src/ops.rs), copy_within (src/src/copy.rs) and      *)
(* deserialization (src/src/serde.rs).                                     *)
(*                                                                         *)
(* Offsets into buffers are 0-based as in the source; TLA+ sequences are   *)
(* 1-based, so the element at offset k of a buffer d is d[k + 1].          *)
(***************************************************************************)
EXTENDS Integers, Sequences, FiniteSets, TLC

\* ------------------------------------------------------------------ bounds
MaxCols == 3
MaxRows == 3
MaxLen == 6
\* the structural operations never look at an element, so two values that can
\* be told apart are enough to expose any element that ends up misplaced
Vals == {0, 1}

\* the bit pattern of a slot of reserved capacity that was never written
Uninit == -1

\* ---------------------------------------------------------------- variables
VARIABLES
    data,       \* TooDee.data: the contents of the Vec's allocation
    len,        \* TooDee.data.len(): the Vec's declared length
    num_cols,   \* TooDee.num_cols
    num_rows,   \* TooDee.num_rows
    pc,         \* "idle", or the position inside a DrainCol's life
    drain,      \* the live DrainCol: iter.v (as offset and length), iter.skip, col
    yielded,    \* the elements the DrainCol handed to its consumer, in order
    dropped,    \* the elements DrainCol::drop discarded, in order
    cp,         \* the cursor of DropGuard::drop's compaction loop
    view,       \* the TooDeeView or TooDeeViewMut in hand, as a window on data
    iter,       \* the Rows, Col or FlattenExact iterator in hand
    old,        \* the grid as it was when the last operation was called
    last        \* the last operation: its name, arguments and result

vars == <<data, len, num_cols, num_rows, pc, drain, yielded, dropped, cp, view, iter,
         old, last>>

NoDrain == [v_start |-> 0, v_len |-> 0, skip |-> 0, col |-> 0]
NoCp == [src |-> 0, dest |-> 0, i |-> 0]
\* a slice of data: offset and length; an Option of one
Slice(start, n) == [start |-> start, len |-> n]
None == [some |-> FALSE, start |-> 0, len |-> 0]
Some(sl) == [some |-> TRUE, start |-> sl.start, len |-> sl.len]
NoView == [kind |-> "none", data |-> Slice(0, 0), num_cols |-> 0, num_rows |-> 0,
           main_cols |-> 0, start |-> <<0, 0>>]
NoIter == [kind |-> "none", v_start |-> 0, v_len |-> 0, cols |-> 0, skip |-> 0,
           frontiter |-> None, backiter |-> None]
\* a call: its name, its numeric arguments a and b, its sequence argument,
\* what it returned or yielded, and whether it panicked
Op(name, a, b, arg, out) ==
    [op |-> name, a |-> a, b |-> b, arg |-> arg, out |-> out, panic |-> FALSE]
Panicked(name, a, b, arg) ==
    [op |-> name, a |-> a, b |-> b, arg |-> arg, out |-> <<>>, panic |-> TRUE]
NoOp == Op("none", 0, 0, <<>>, <<>>)
Snapshot == [data |-> SubSeq(data, 1, len), num_cols |-> num_cols, num_rows |-> num_rows]

\* ptr::copy(src, dest, n) on the allocation m (a memmove: all reads first)
PtrCopy(m, src, dest, n) ==
    [k \in 1..Len(m) |->
        IF k - 1 >= dest /\ k - 1 < dest + n THEN m[(k - 1 - dest) + src + 1] ELSE m[k]]

\* ptr::write(p, e)
PtrWrite(m, p, e) == [m EXCEPT ![p + 1] = e]

\* the element at (col, row) of a row-major buffer whose rows are nc wide
Cell(d, nc, c, r) == d[r * nc + c + 1]

\* ------------------------------------------------------------ TooDee::default
Init ==
    /\ data = <<>>
    /\ len = 0
    /\ num_cols = 0
    /\ num_rows = 0
    /\ pc = "idle"
    /\ drain = NoDrain
    /\ yielded = <<>>
    /\ dropped = <<>>
    /\ cp = NoCp
    /\ view = NoView
    /\ iter = NoIter
    /\ old = [data |-> <<>>, num_cols |-> 0, num_rows |-> 0]
    /\ last = NoOp

Idle == pc = "idle"
\* an operation on a grid with no live drain; the record of the previous
\* drain's elements is forgotten
NoDrainLeft ==
    /\ yielded' = <<>>
    /\ dropped' = <<>>
    /\ UNCHANGED <<pc, drain, cp, view, iter>>

\* ------------------------------------------------------- TooDee::insert_row
\* the number of columns after `self.num_cols = iter.len()` on an empty grid
InsertRowCols(row) == IF num_rows = 0 THEN Len(row) ELSE num_cols

\* the allocation after the shift and the writes of insert_row
InsertRowData(d, nc, index, row) ==
    LET start == index * nc
        l == Len(d)
        shifted == PtrCopy(d \o [k \in 1..nc |-> Uninit], start, start + nc, l - start)
    IN  [k \in 1..(l + nc) |->
            IF k - 1 >= start /\ k - 1 < start + nc THEN row[k - start] ELSE shifted[k]]

DoInsertRow(name, index, row) ==
    /\ Idle
    /\ index <= num_rows
    /\ num_rows # 0 => num_cols = Len(row)
    /\ LET nc == InsertRowCols(row)
       IN  /\ data' = InsertRowData(data, nc, index, row)
           /\ len' = len + nc
           /\ num_cols' = nc
           /\ num_rows' = IF nc > 0 THEN num_rows + 1 ELSE num_rows
    /\ old' = Snapshot
    /\ last' = Op(name, index, 0, row, <<>>)
    /\ NoDrainLeft

RowInputs == UNION { [1..n -> Vals] : n \in 0..MaxCols }
ColInputs == UNION { [1..n -> Vals] : n \in 0..MaxRows }

InsertRow ==
    \E index \in 0..MaxRows, row \in RowInputs :
        /\ num_rows < MaxRows /\ len + Len(row) <= MaxLen
        /\ DoInsertRow("insert_row", index, row)

\* TooDee::push_row
PushRow ==
    \E row \in RowInputs :
        /\ num_rows < MaxRows /\ len + Len(row) <= MaxLen
        /\ DoInsertRow("push_row", num_rows, row)

\* ------------------------------------------------------- TooDee::remove_row
\* the elements of Vec::drain(start..start + num_cols)
RemoveRowOut(d, nc, index) == SubSeq(d, index * nc + 1, index * nc + nc)

\* the Vec once that Drain is dropped
RemoveRowData(d, nc, index) ==
    SubSeq(d, 1, index * nc) \o SubSeq(d, index * nc + nc + 1, Len(d))

\* num_cols after remove_row on a grid of nc columns and nr rows
RemoveRowCols(nc, nr) == IF nr - 1 = 0 THEN 0 ELSE nc

DoRemoveRow(name, index) ==
    /\ Idle
    /\ index < num_rows
    /\ data' = RemoveRowData(data, num_cols, index)
    /\ len' = len - num_cols
    /\ num_rows' = num_rows - 1
    /\ num_cols' = RemoveRowCols(num_cols, num_rows)
    /\ old' = Snapshot
    /\ last' = Op(name, index, 0, <<>>, RemoveRowOut(data, num_cols, index))
    /\ NoDrainLeft

RemoveRow == \E index \in 0..(MaxRows - 1) : DoRemoveRow("remove_row", index)

\* TooDee::pop_row
PopRow == num_rows # 0 /\ DoRemoveRow("pop_row", num_rows - 1)

\* ------------------------------------------------------------ TooDee::clear
Clear ==
    /\ Idle
    /\ num_cols' = 0
    /\ num_rows' = 0
    /\ data' = <<>>
    /\ len' = 0
    /\ old' = Snapshot
    /\ last' = Op("clear", 0, 0, <<>>, <<>>)
    /\ NoDrainLeft

\* -------------------------------------------------- TooDee::swap_dimensions
SwapDimensions ==
    /\ Idle
    /\ num_cols <= MaxRows /\ num_rows <= MaxCols
    /\ num_cols' = num_rows
    /\ num_rows' = num_cols
    /\ old' = Snapshot
    /\ last' = Op("swap_dimensions", 0, 0, <<>>, <<>>)
    /\ UNCHANGED <<data, len>>
    /\ NoDrainLeft

\* ------------------------------------------------------- TooDee::insert_col
\* the loop without its `ptr::copy(read_p, write_p, self.num_cols)`: the
\* elements are written but the rows are not moved apart
RECURSIVE InsertColLoopNoShift(_, _, _, _, _, _)
InsertColLoopNoShift(m, read_p, write_p, nc, n, rev) ==
    IF n = 0 THEN [m |-> m, read_p |-> read_p, write_p |-> write_p]
    ELSE InsertColLoopNoShift(PtrWrite(m, write_p - nc - 1, rev[Len(rev)]),
                              read_p - nc, write_p - nc - 1, nc, n - 1,
                              SubSeq(rev, 1, Len(rev) - 1))

\* the `for _ in 0..(self.num_rows - 1)` loop: n iterations left, rev holds
\* the elements the reversed iterator has not yet produced (last one first)
RECURSIVE InsertColLoop(_, _, _, _, _, _)
InsertColLoop(m, read_p, write_p, nc, n, rev) ==
    IF n = 0 THEN [m |-> m, read_p |-> read_p, write_p |-> write_p]
    ELSE LET m1 == PtrCopy(m, read_p - nc, write_p - nc, nc)
             m2 == PtrWrite(m1, write_p - nc - 1, rev[Len(rev)])
         IN  InsertColLoop(m2, read_p - nc, write_p - nc - 1, nc, n - 1,
                           SubSeq(rev, 1, Len(rev) - 1))

\* insert_col taking its elements from the front of the iterator, without
\* `.rev()`: the column goes in upside down
InsertColDataForward(d, nc, nr, index, col) ==
    LET old_len == Len(d)
        new_len == old_len + nr
        suffix_len == nc - index
        m0 == d \o [k \in 1..nr |-> Uninit]
        fwd == [k \in 1..Len(col) |-> col[Len(col) + 1 - k]]
    IN  IF nr > 0
        THEN LET m1 == PtrCopy(m0, old_len - suffix_len, new_len - suffix_len, suffix_len)
                 m2 == PtrWrite(m1, new_len - suffix_len - 1, fwd[Len(fwd)])
                 lp == InsertColLoop(m2, old_len - suffix_len, new_len - suffix_len - 1,
                                     nc, nr - 1, SubSeq(fwd, 1, Len(fwd) - 1))
             IN  PtrCopy(lp.m, lp.read_p - index, lp.write_p - index, index)
        ELSE m0

\* the allocation after insert_col's shifting and writing; nr is num_rows
\* after `self.num_rows = rev_iter.len()` on an empty grid
InsertColData(d, nc, nr, index, col) ==
    LET old_len == Len(d)
        new_len == old_len + nr
        suffix_len == nc - index
        m0 == d \o [k \in 1..nr |-> Uninit]
    IN  IF nr > 0
        THEN LET m1 == PtrCopy(m0, old_len - suffix_len, new_len - suffix_len, suffix_len)
                 m2 == PtrWrite(m1, new_len - suffix_len - 1, col[Len(col)])
                 lp == InsertColLoop(m2, old_len - suffix_len, new_len - suffix_len - 1,
                                     nc, nr - 1, SubSeq(col, 1, Len(col) - 1))
             IN  PtrCopy(lp.m, lp.read_p - index, lp.write_p - index, index)
        ELSE m0

DoInsertCol(name, index, col) ==
    /\ Idle
    /\ index <= num_cols
    /\ num_cols # 0 => num_rows = Len(col)
    /\ LET nr == IF num_cols = 0 THEN Len(col) ELSE num_rows
       IN  /\ data' = InsertColData(data, num_cols, nr, index, col)
           /\ len' = len + nr
           /\ num_rows' = nr
           /\ num_cols' = IF nr > 0 THEN num_cols + 1 ELSE num_cols
    /\ old' = Snapshot
    /\ last' = Op(name, index, 0, col, <<>>)
    /\ NoDrainLeft

InsertCol ==
    \E index \in 0..MaxCols, col \in ColInputs :
        /\ num_cols < MaxCols /\ len + Len(col) <= MaxLen
        /\ DoInsertCol("insert_col", index, col)

\* TooDee::push_col
PushCol ==
    \E col \in ColInputs :
        /\ num_cols < MaxCols /\ len + Len(col) <= MaxLen
        /\ DoInsertCol("push_col", num_cols, col)

\* ------------------------------------------------------- TooDee::remove_col
\* the DrainCol that remove_col builds over a Vec of length l
RemoveColDrain(l, nc, index) ==
    [v_start |-> index, v_len |-> l - nc + 1, skip |-> nc - 1, col |-> index]

DoRemoveCol(name, index) ==
    /\ Idle
    /\ index < num_cols
    /\ len' = 0
    /\ drain' = RemoveColDrain(len, num_cols, index)
    /\ pc' = "drain"
    /\ yielded' = <<>>
    /\ dropped' = <<>>
    /\ old' = Snapshot
    /\ last' = Op(name, index, 0, <<>>, <<>>)
    /\ UNCHANGED <<data, num_cols, num_rows, cp, view, iter>>

RemoveCol == \E index \in 0..(MaxCols - 1) : DoRemoveCol("remove_col", index)

\* TooDee::pop_col
PopCol == num_cols # 0 /\ DoRemoveCol("pop_col", num_cols - 1)

\* ------------------------------------------------------------------- Col
\* Col::next: the drain after the call (the item is the first of iter.v)
ColNext(dr) ==
    IF dr.v_len - 1 = 0
    THEN [dr EXCEPT !.v_start = 0, !.v_len = 0]
    ELSE [dr EXCEPT !.v_start = dr.v_start + 1 + dr.skip,
                    !.v_len = dr.v_len - 1 - dr.skip]

\* Col::next_back: the drain after the call (the item is the last of iter.v)
ColNextBack(dr) ==
    IF dr.v_len - 1 = 0
    THEN [dr EXCEPT !.v_start = 0, !.v_len = 0]
    ELSE [dr EXCEPT !.v_len = dr.v_len - 1 - dr.skip]

\* --------------------------------------------------------------- DrainCol
\* DrainCol::next, called by the consumer
DrainColNext ==
    /\ pc = "drain"
    /\ drain.v_len > 0
    /\ yielded' = Append(yielded, data[drain.v_start + 1])
    /\ drain' = ColNext(drain)
    /\ UNCHANGED <<data, len, num_cols, num_rows, pc, dropped, cp, view, iter, old, last>>

\* DrainCol::next_back, called by the consumer
DrainColNextBack ==
    /\ pc = "drain"
    /\ drain.v_len > 0
    /\ yielded' = Append(yielded, data[drain.v_start + drain.v_len])
    /\ drain' = ColNextBack(drain)
    /\ UNCHANGED <<data, len, num_cols, num_rows, pc, dropped, cp, view, iter, old, last>>

\* `while let Some(item) = self.next()` in <DrainCol as Drop>::drop: the
\* items it takes from the drain (and drops), first to last
RECURSIVE Exhaust(_, _)
Exhaust(d, dr) ==
    IF dr.v_len = 0 THEN <<>>
    ELSE <<d[dr.v_start + 1]>> \o Exhaust(d, ColNext(dr))

\* `for _ in 1..num_rows` in DropGuard::drop, from its turn i on
RECURSIVE CompactLoop(_, _, _, _, _, _)
CompactLoop(m, src, dest, i, nc, nr) ==
    IF i < nr
    THEN CompactLoop(PtrCopy(m, src, dest, nc - 1), src + nc, dest + (nc - 1), i + 1, nc, nr)
    ELSE [m |-> m, src |-> src, dest |-> dest]

\* DropGuard::drop without its last copy: the tail of the last row stays put
CompactNoTail(m, col, nc, nr) == CompactLoop(m, col + 1, col, 1, nc, nr).m

\* the allocation after the copies of DropGuard::drop
Compact(m, col, nc, nr) ==
    LET lp == CompactLoop(m, col + 1, col, 1, nc, nr)
    IN  PtrCopy(lp.m, lp.src, lp.dest, nc - col - 1)

\* DropGuard::drop without `if toodee.num_cols == 0 { toodee.num_rows = 0 }`
DropGuardRowsKept(nc, nr) == nr

\* num_rows after DropGuard::drop on a grid of nc columns and nr rows
DropGuardRows(nc, nr) == IF nc - 1 = 0 THEN 0 ELSE nr

\* <DrainCol as Drop>::drop: the consumer lets go of the drain; what is left
\* of the column is dropped, DropGuard::drop closes the gaps and sets the
\* dimensions and the Vec's length
DrainColDrop ==
    /\ pc = "drain"
    /\ dropped' = Exhaust(data, drain)
    /\ LET m == Compact(data, drain.col, num_cols, num_rows)
           nc == num_cols - 1
           nr == DropGuardRows(num_cols, num_rows)
       IN  /\ num_cols' = nc
           /\ num_rows' = nr
           /\ len' = nc * nr
           /\ data' = SubSeq(m, 1, nc * nr)
    /\ pc' = "idle"
    /\ drain' = NoDrain
    /\ last' = [last EXCEPT !.out = yielded]
    /\ UNCHANGED <<yielded, cp, view, iter, old>>

Next ==
    \/ InsertRow \/ PushRow \/ RemoveRow \/ PopRow
    \/ InsertCol \/ PushCol \/ RemoveCol \/ PopCol
    \/ DrainColNext \/ DrainColNextBack \/ DrainColDrop
    \/ Clear \/ SwapDimensions

Spec == Init /\ [][Next]_vars

\* ------------------------------------ <DrainCol as Drop>::drop, step by step
\* pc follows the disposal: "exhaust" is the `while let Some(item) =
\* self.next()` loop of drop; "discard" is `self.0.for_each(drop)` of
\* DropGuard::drop, "compact" its copies and "commit" its assignments to
\* num_cols, num_rows and the Vec's length. last.panic tells that the drop
\* of an element panicked and the stack is unwinding.
InitDrop ==
    /\ \E nc \in 0..MaxCols, nr \in 0..MaxRows :
          /\ (nc = 0 <=> nr = 0)
          /\ data = [k \in 1..(nc * nr) |-> k - 1]
          /\ len = nc * nr
          /\ num_cols = nc
          /\ num_rows = nr
          /\ old = [data |-> [k \in 1..(nc * nr) |-> k - 1], num_cols |-> nc, num_rows |-> nr]
    /\ pc = "idle"
    /\ drain = NoDrain
    /\ yielded = <<>>
    /\ dropped = <<>>
    /\ cp = NoCp
    /\ view = NoView
    /\ iter = NoIter
    /\ last = NoOp

\* the consumer lets go of the DrainCol: drop is entered
DropBegin ==
    /\ pc = "drain"
    /\ pc' = "exhaust"
    /\ UNCHANGED <<data, len, num_cols, num_rows, drain, yielded, dropped, cp, view, iter,
                   old, last>>

\* where drop goes without leaving a DropGuard behind when the drop of an
\* item panics: the unwinding leaves drop and nothing else runs
AfterItemUnguarded(panicked) == IF panicked THEN "idle" ELSE "exhaust"

\* where drop goes after `drop(item)` in its loop: DropGuard::drop runs if
\* the drop panicked (the guard is dropped by the unwinding), and else the
\* guard is forgotten and the loop goes on
AfterItem(panicked) == IF panicked THEN "discard" ELSE "exhaust"

\* one turn of `while let Some(item) = self.next() { ... drop(item) ... }`
ExhaustStep ==
    /\ pc = "exhaust"
    /\ drain.v_len > 0
    /\ \E panicked \in BOOLEAN :
          /\ pc' = AfterItem(panicked)
          /\ last' = [last EXCEPT !.panic = panicked]
    /\ dropped' = Append(dropped, data[drain.v_start + 1])
    /\ drain' = ColNext(drain)
    /\ UNCHANGED <<data, len, num_cols, num_rows, yielded, cp, view, iter, old>>

\* the loop ends with None: `DropGuard(self);` builds a guard and drops it
ExhaustDone ==
    /\ pc = "exhaust"
    /\ drain.v_len = 0
    /\ pc' = "discard"
    /\ UNCHANGED <<data, len, num_cols, num_rows, drain, yielded, dropped, cp, view, iter,
                   old, last>>

\* one element of `self.0.for_each(drop)` in DropGuard::drop. Elements are
\* left only when the guard runs in an unwinding, and a drop that panics
\* then aborts the process.
GuardDiscardStep ==
    /\ pc = "discard"
    /\ drain.v_len > 0
    /\ \E panicked \in BOOLEAN : pc' = IF panicked THEN "aborted" ELSE "discard"
    /\ dropped' = Append(dropped, data[drain.v_start + 1])
    /\ drain' = ColNext(drain)
    /\ UNCHANGED <<data, len, num_cols, num_rows, yielded, cp, view, iter, old, last>>

\* where DropGuard::drop goes from `for_each(drop)` without waiting for the
\* drain to be empty
GuardAfterDiscardEarly(dr) == "compact"

\* where DropGuard::drop stands while the drain dr has elements, and after
GuardAfterDiscard(dr) == IF dr.v_len > 0 THEN "discard" ELSE "compact"

\* for_each has seen None: `dest`, `src` are set up for the copies
GuardDiscardDone ==
    /\ pc = "discard"
    /\ GuardAfterDiscard(drain) = "compact"
    /\ pc' = "compact"
    /\ cp' = [src |-> drain.col + 1, dest |-> drain.col, i |-> 1]
    /\ UNCHANGED <<data, len, num_cols, num_rows, drain, yielded, dropped, view, iter, old,
                   last>>

\* one turn of `for _ in 1..num_rows { ptr::copy(src, dest, new_cols); ... }`
CompactStep ==
    /\ pc = "compact"
    /\ cp.i < num_rows
    /\ data' = PtrCopy(data, cp.src, cp.dest, num_cols - 1)
    /\ cp' = [src |-> cp.src + num_cols, dest |-> cp.dest + (num_cols - 1), i |-> cp.i + 1]
    /\ UNCHANGED <<len, num_cols, num_rows, pc, drain, yielded, dropped, view, iter, old, last>>

\* `ptr::copy(src, dest, orig_cols - col - 1)` after the loop
CompactTail ==
    /\ pc = "compact"
    /\ ~(cp.i < num_rows)
    /\ data' = PtrCopy(data, cp.src, cp.dest, num_cols - drain.col - 1)
    /\ pc' = "commit"
    /\ UNCHANGED <<len, num_cols, num_rows, drain, yielded, dropped, cp, view, iter, old, last>>

\* `toodee.num_cols -= 1; if toodee.num_cols == 0 { toodee.num_rows = 0; }
\* vec.set_len(toodee.num_cols * toodee.num_rows)`, and the DrainCol is gone
Commit ==
    /\ pc = "commit"
    /\ LET nc == num_cols - 1
           nr == DropGuardRows(num_cols, num_rows)
       IN  /\ num_cols' = nc
           /\ num_rows' = nr
           /\ len' = nc * nr
           /\ data' = SubSeq(data, 1, nc * nr)
    /\ pc' = "idle"
    /\ drain' = NoDrain
    /\ cp' = NoCp
    /\ last' = [last EXCEPT !.out = yielded]
    /\ UNCHANGED <<yielded, dropped, view, iter, old>>

NextDrop ==
    \/ RemoveCol
    \/ PopCol
    \/ DrainColNext
    \/ DrainColNextBack
    \/ DropBegin
    \/ ExhaustStep
    \/ ExhaustDone
    \/ GuardDiscardStep
    \/ GuardDiscardDone
    \/ CompactStep
    \/ CompactTail
    \/ Commit

SpecDrop == InitDrop /\ [][NextDrop]_vars

\* ------------------------------------------- insertions whose source fails
\* A source of declared length n (ExactSizeIterator::len) that hands over
\* the elements `written` and then panics in next() or returns None; in both
\* cases the insertion unwinds from inside its unsafe block.

\* the allocation insert_row leaves behind: the shift is done, Len(written)
\* elements are in the gap
InsertRowFaultData(d, nc, index, written) ==
    LET start == index * nc
        l == Len(d)
        shifted == PtrCopy(d \o [k \in 1..nc |-> Uninit], start, start + nc, l - start)
    IN  [k \in 1..(l + nc) |->
            IF k - 1 >= start /\ k - 1 < start + Len(written)
            THEN written[k - start] ELSE shifted[k]]

\* insert_row unwinding: `self.num_cols = iter.len()` and
\* `self.data.set_len(start)` are done, `set_len(len + self.num_cols)` and
\* `self.num_rows += 1` are not
InsertRowFault ==
    \E index \in 0..MaxRows, n \in 1..MaxCols, written \in RowInputs :
        /\ Idle
        /\ num_rows < MaxRows /\ len + n <= MaxLen
        /\ index <= num_rows
        /\ num_rows # 0 => num_cols = n
        /\ Len(written) < n
        /\ data' = InsertRowFaultData(data, n, index, written)
        /\ len' = index * n
        /\ num_cols' = n
        /\ num_rows' = num_rows
        /\ pc' = "faulted"
        /\ old' = Snapshot
        /\ last' = Panicked("insert_row", index, n, written)
        /\ yielded' = <<>>
        /\ dropped' = <<>>
        /\ UNCHANGED <<drain, cp, view, iter>>

\* the loop of insert_col with a source that gives `todo` and then fails:
\* each turn copies a block and then asks for the next element
RECURSIVE InsertColFaultLoop(_, _, _, _, _)
InsertColFaultLoop(m, read_p, write_p, nc, todo) ==
    LET m1 == PtrCopy(m, read_p - nc, write_p - nc, nc)
    IN  IF todo = <<>> THEN m1
        ELSE InsertColFaultLoop(PtrWrite(m1, write_p - nc - 1, Head(todo)),
                                read_p - nc, write_p - nc - 1, nc, Tail(todo))

\* the allocation insert_col leaves behind; written holds the elements in
\* the order the reversed source gave them
InsertColFaultData(d, nc, nr, index, written) ==
    LET old_len == Len(d)
        new_len == old_len + nr
        suffix_len == nc - index
        m0 == d \o [k \in 1..nr |-> Uninit]
        m1 == PtrCopy(m0, old_len - suffix_len, new_len - suffix_len, suffix_len)
    IN  IF written = <<>> THEN m1
        ELSE InsertColFaultLoop(PtrWrite(m1, new_len - suffix_len - 1, Head(written)),
                                old_len - suffix_len, new_len - suffix_len - 1,
                                nc, Tail(written))

\* insert_col unwinding: `self.num_rows = rev_iter.len()` and
\* `self.data.set_len(0)` are done, `set_len(new_len)` and
\* `self.num_cols += 1` are not
InsertColFault ==
    \E index \in 0..MaxCols, n \in 1..MaxRows, written \in ColInputs :
        /\ Idle
        /\ num_cols < MaxCols /\ len + n <= MaxLen
        /\ index <= num_cols
        /\ num_cols # 0 => num_rows = n
        /\ Len(written) < n
        /\ data' = InsertColFaultData(data, num_cols, n, index, written)
        /\ len' = 0
        /\ num_rows' = n
        /\ num_cols' = num_cols
        /\ pc' = "faulted"
        /\ old' = Snapshot
        /\ last' = Panicked("insert_col", index, n, written)
        /\ yielded' = <<>>
        /\ dropped' = <<>>
        /\ UNCHANGED <<drain, cp, view, iter>>

\* the grid's operations, and insertions from a failing source; a grid whose
\* insertion unwound is looked at and not used further
NextFault == Next \/ InsertRowFault \/ InsertColFault

SpecFault == Init /\ [][NextFault]_vars

\* ============================================================ translate
MaxTCols == 3
MaxTRows == 4
MaxShift == 5

\* the values translate_with_fill is given: one that some cell holds too,
\* and one that no cell holds
FillVals == {0, 99}

\* Rust's `%` on isize: the remainder takes the sign of the dividend
RustRem(a, n) == IF a >= 0 THEN a % n ELSE 0 - ((0 - a) % n)

\* row r of a grid whose rows are nc wide
Row(d, nc, r) == SubSeq(d, r * nc + 1, r * nc + nc)

SetRow(d, nc, r, row) ==
    [k \in 1..Len(d) |-> IF k - 1 >= r * nc /\ k - 1 < r * nc + nc THEN row[k - r * nc] ELSE d[k]]

\* slice::rotate_left
RotateLeft(row, mid) == SubSeq(row, mid + 1, Len(row)) \o SubSeq(row, 1, mid)

\* `row_adj_abs` of translate_with_wrap, from the reduced row_adj
RowAdjAbs(row_adj, nr) == IF row_adj >= 0 THEN row_adj ELSE nr - (0 - row_adj)

\* a col_mid that shifts the wrong way for a positive col_adj
ColMidMirrored(col_adj, nc) == IF col_adj < 0 THEN 0 - col_adj ELSE col_adj

\* `col_mid` of translate_with_wrap, from the reduced col_adj
ColMid(col_adj, nc) ==
    IF col_adj < 0 THEN 0 - col_adj
    ELSE IF col_adj > 0 THEN nc - col_adj
    ELSE 0

\* "performs a rotate while swapping": the grid after the two
\* swap_with_slice calls on row_pair_mut(base_row, next_row)
SwapRotate(d, nc, base_row, next_row, mid) ==
    LET base_ref == Row(d, nc, base_row)
        next_ref == Row(d, nc, next_row)
        new_base == [k \in 1..nc |->
                        IF k - 1 < mid
                        THEN (IF mid > 0 THEN next_ref[nc - mid + k] ELSE base_ref[k])
                        ELSE (IF mid < nc THEN next_ref[k - mid] ELSE base_ref[k])]
        new_next == [k \in 1..nc |->
                        IF k - 1 >= nc - mid
                        THEN (IF mid > 0 THEN base_ref[k - (nc - mid)] ELSE next_ref[k])
                        ELSE (IF mid < nc THEN base_ref[mid + k] ELSE next_ref[k])]
    IN  SetRow(SetRow(d, nc, base_row, new_base), nc, next_row, new_next)

\* the inner `loop` of translate_with_wrap; next_row is the value the loop
\* variable has at the top of the turn
RECURSIVE TranslateCycle(_, _, _, _, _, _, _, _, _)
TranslateCycle(d, nc, nr, base_row, next_row, swap_count, mid, col_mid, row_adj_abs) ==
    LET nxt == IF next_row >= nr THEN next_row - nr ELSE next_row
    IN  IF base_row = nxt
        THEN [d |-> IF mid > 0
                    THEN SetRow(d, nc, base_row, RotateLeft(Row(d, nc, base_row), mid))
                    ELSE d,
              swap_count |-> swap_count + 1,
              mid |-> mid]
        ELSE TranslateCycle(SwapRotate(d, nc, base_row, nxt, mid), nc, nr, base_row,
                            nxt + row_adj_abs, swap_count + 1,
                            IF mid + col_mid >= nc THEN mid + col_mid - nc ELSE mid + col_mid,
                            col_mid, row_adj_abs)

\* the `while swap_count < num_rows` loop of translate_with_wrap; mid is
\* declared outside the loop and keeps its value from one cycle to the next
RECURSIVE TranslateCycles(_, _, _, _, _, _, _, _)
TranslateCycles(d, nc, nr, base_row, swap_count, mid, col_mid, row_adj_abs) ==
    IF swap_count < nr
    THEN LET c == TranslateCycle(d, nc, nr, base_row, base_row + row_adj_abs,
                                 swap_count, mid, col_mid, row_adj_abs)
         IN  IF c.swap_count >= nr THEN c.d
             ELSE TranslateCycles(c.d, nc, nr, base_row + 1, c.swap_count, c.mid,
                                  col_mid, row_adj_abs)
    ELSE d

\* the area after translate_with_wrap(col_adj, row_adj)
TranslateWithWrapData(d, nc, nr, col_adj0, row_adj0) ==
    IF nr = 0 \/ nc = 0 THEN d
    ELSE LET row_adj == RustRem(row_adj0, nr)
             col_adj == RustRem(col_adj0, nc)
             row_adj_abs == RowAdjAbs(row_adj, nr)
             col_mid == ColMid(col_adj, nc)
         IN  IF row_adj = 0
             THEN IF col_mid # 0
                  THEN [k \in 1..Len(d) |->
                           RotateLeft(Row(d, nc, (k - 1) \div nc), col_mid)[((k - 1) % nc) + 1]]
                  ELSE d
             ELSE TranslateCycles(d, nc, nr, 0, 0, col_mid, col_mid, row_adj_abs)

\* view_mut(c0, r0, c1, r1).fill(fill): the cells of columns c0..c1-1 and
\* rows r0..r1-1 take the value fill
FillRect(d, nc, c0, r0, c1, r1, fill) ==
    [k \in 1..Len(d) |->
        LET c == (k - 1) % nc
            r == (k - 1) \div nc
        IN  IF c >= c0 /\ c < c1 /\ r >= r0 /\ r < r1 THEN fill ELSE d[k]]

\* the area after translate_with_fill(col_adj, row_adj, fill)
TranslateWithFillData(d, nc, nr, col_adj, row_adj, fill) ==
    LET abs_row == IF row_adj < 0 THEN 0 - row_adj ELSE row_adj
        abs_col == IF col_adj < 0 THEN 0 - col_adj ELSE col_adj
    IN  IF abs_row < nr /\ abs_col < nc
        THEN LET \* the rows of sub_view, after the rows outside it are filled
                 sub_r0 == IF row_adj < 0 THEN 0 - row_adj ELSE 0
                 sub_r1 == IF row_adj > 0 THEN nr - row_adj ELSE nr
                 d1 == IF row_adj < 0 THEN FillRect(d, nc, 0, 0, nc, 0 - row_adj, fill)
                       ELSE IF row_adj > 0 THEN FillRect(d, nc, 0, nr - row_adj, nc, nr, fill)
                       ELSE d
                 d2 == IF col_adj < 0
                       THEN FillRect(d1, nc, 0, sub_r0, 0 - col_adj, sub_r1, fill)
                       ELSE IF col_adj > 0
                       THEN FillRect(d1, nc, nc - col_adj, sub_r0, nc, sub_r1, fill)
                       ELSE d1
             IN  TranslateWithWrapData(d2, nc, nr, col_adj, row_adj)
        ELSE [k \in 1..Len(d) |-> fill]

\* TooDee::from_vec(nc, nr, (0..nc * nr).collect()), or TooDee::default()
InitTranslate ==
    /\ \E nc \in 0..MaxTCols, nr \in 0..MaxTRows :
          /\ (nc = 0 <=> nr = 0)
          /\ data = [k \in 1..(nc * nr) |-> k - 1]
          /\ len = nc * nr
          /\ num_cols = nc
          /\ num_rows = nr
          /\ old = [data |-> [k \in 1..(nc * nr) |-> k - 1], num_cols |-> nc, num_rows |-> nr]
    /\ pc = "idle"
    /\ drain = NoDrain
    /\ yielded = <<>>
    /\ dropped = <<>>
    /\ cp = NoCp
    /\ view = NoView
    /\ iter = NoIter
    /\ last = NoOp

Shifts == (0 - MaxShift)..MaxShift

TranslateWithWrap ==
    \E col_adj \in Shifts, row_adj \in Shifts :
        /\ last.op = "none"
        /\ data' = TranslateWithWrapData(data, num_cols, num_rows, col_adj, row_adj)
        /\ last' = Op("translate_with_wrap", col_adj, row_adj, <<>>, <<>>)
        /\ UNCHANGED <<len, num_cols, num_rows, pc, drain, yielded, dropped, cp, view, iter, old>>

TranslateWithFill ==
    \E col_adj \in Shifts, row_adj \in Shifts, fill \in FillVals :
        /\ last.op = "none"
        /\ data' = TranslateWithFillData(data, num_cols, num_rows, col_adj, row_adj, fill)
        /\ last' = Op("translate_with_fill", col_adj, row_adj, <<fill>>, <<>>)
        /\ UNCHANGED <<len, num_cols, num_rows, pc, drain, yielded, dropped, cp, view, iter, old>>

NextTranslate == TranslateWithWrap \/ TranslateWithFill

SpecTranslate == InitTranslate /\ [][NextTranslate]_vars

\* ================================================================= sort
MaxSCols == 3
MaxSRows == 3
MaxSLen == 6
MaxKey == 1

\* the injective maps of S onto itself
Perms(S) == {p \in [S -> S] : \A x, y \in S : p[x] = p[y] => x = y}

\* the orders slice::sort_unstable_by may leave the pairs (index, value) of
\* vals in, as the sequence of their indices: any order along which the key
\* the comparison goes by does not decrease (f[v + 1] is the key of value v)
SortedOrders(vals, f) ==
    {ord \in [1..Len(vals) -> 0..(Len(vals) - 1)] :
        /\ \A i, j \in 1..Len(vals) : ord[i] = ord[j] => i = j
        /\ \A i \in 1..(Len(vals) - 1) : f[vals[ord[i] + 1] + 1] <= f[vals[ord[i + 1] + 1] + 1]}

\* the order slice::sort_by leaves them in: equal keys keep their order
StableOrder(vals, f) ==
    CHOOSE ord \in SortedOrders(vals, f) :
        \A i \in 1..(Len(vals) - 1) :
            f[vals[ord[i] + 1] + 1] = f[vals[ord[i + 1] + 1] + 1] => ord[i] < ord[i + 1]

\* sorted_box_to_ordering: the second field of each pair holds the bits of a
\* reference, which build_swap_trace overwrites before reading
SortedBoxToOrdering(ord) == [i \in 1..Len(ord) |-> <<ord[i], Uninit>>]

\* "Create a reverse lookup", from the turn idx on
RECURSIVE ReverseLookup(_, _)
ReverseLookup(ordering, idx) ==
    IF idx = Len(ordering) THEN ordering
    ELSE ReverseLookup([ordering EXCEPT ![ordering[idx + 1][1] + 1][2] = idx], idx + 1)

\* the second loop of build_swap_trace without its `if inv_i > i` update
RECURSIVE SwapTraceLoopStale(_, _, _)
SwapTraceLoopStale(ordering, i, swap_count) ==
    IF i = Len(ordering) THEN SubSeq(ordering, 1, swap_count)
    ELSE LET other == ordering[i + 1][1]
         IN  IF i # other
             THEN SwapTraceLoopStale([ordering EXCEPT ![swap_count + 1] = <<i, other>>],
                                     i + 1, swap_count + 1)
             ELSE SwapTraceLoopStale(ordering, i + 1, swap_count)

\* "Build a swap trace", from the turn i on, and the slice returned
RECURSIVE SwapTraceLoop(_, _, _)
SwapTraceLoop(ordering, i, swap_count) ==
    IF i = Len(ordering) THEN SubSeq(ordering, 1, swap_count)
    ELSE LET other == ordering[i + 1][1]
             inv_i == ordering[i + 1][2]
         IN  IF i # other
             THEN LET o1 == [ordering EXCEPT ![swap_count + 1] = <<i, other>>]
                      o2 == IF inv_i > i
                            THEN LET o3 == [o1 EXCEPT ![inv_i + 1][1] = other]
                                 IN  [o3 EXCEPT ![other + 1][2] = inv_i]
                            ELSE o1
                  IN  SwapTraceLoop(o2, i + 1, swap_count + 1)
             ELSE SwapTraceLoop(ordering, i + 1, swap_count)

\* a build_swap_trace that goes without the reverse lookup
build_swap_trace_no_lookup(ordering) == SwapTraceLoop(ordering, 0, 0)

build_swap_trace(ordering) == SwapTraceLoop(ReverseLookup(ordering, 0), 0, 0)

\* the swaps of a trace, applied in order to the cells of one row
RECURSIVE ApplySwaps(_, _)
ApplySwaps(row, trace) ==
    IF trace = <<>> THEN row
    ELSE LET x == trace[1][1] + 1
             y == trace[1][2] + 1
         IN  ApplySwaps([row EXCEPT ![x] = row[y], ![y] = row[x]], Tail(trace))

\* `for r in self.rows_mut() { for i in swap_trace.iter() { ptr::swap } }`
\* (an empty trace swaps nothing)
ApplyToRows(d, nc, trace) ==
    IF trace = <<>> THEN d
    ELSE [k \in 1..Len(d) |-> ApplySwaps(Row(d, nc, (k - 1) \div nc), trace)[((k - 1) % nc) + 1]]

\* TooDee::swap_rows
SwapRows(d, nc, r1, r2) ==
    IF r1 = r2 THEN d
    ELSE SetRow(SetRow(d, nc, r1, Row(d, nc, r2)), nc, r2, Row(d, nc, r1))

\* `for i in swap_trace.iter() { self.swap_rows(i.0, i.1) }`
RECURSIVE ApplyToCols(_, _, _)
ApplyToCols(d, nc, trace) ==
    IF trace = <<>> THEN d
    ELSE ApplyToCols(SwapRows(d, nc, trace[1][1], trace[1][2]), nc, Tail(trace))

\* self.col(col), collected
ColValues(d, nc, nr, col) == [r \in 1..nr |-> d[(r - 1) * nc + col + 1]]

\* the area after sort_by_row(row, compare), compare ordering by the key f
SortByRowData(d, nc, nr, row, f) ==
    ApplyToRows(d, nc, build_swap_trace(SortedBoxToOrdering(StableOrder(Row(d, nc, row), f))))

\* the area after sort_unstable_by_row, when sort_unstable_by leaves ord
SortUnstableByRowData(d, nc, nr, row, ord) ==
    ApplyToRows(d, nc, build_swap_trace(SortedBoxToOrdering(ord)))

\* the area after sort_by_col(col, compare), compare ordering by the key f
SortByColData(d, nc, nr, col, f) ==
    ApplyToCols(d, nc,
                build_swap_trace(SortedBoxToOrdering(StableOrder(ColValues(d, nc, nr, col), f))))

\* TooDee::from_vec(nc, nr, (0..nc * nr).collect()), or TooDee::default()
InitSort ==
    /\ \E nc \in 0..MaxSCols, nr \in 0..MaxSRows :
          /\ (nc = 0 <=> nr = 0)
          /\ nc * nr <= MaxSLen
          /\ data = [k \in 1..(nc * nr) |-> k - 1]
          /\ len = nc * nr
          /\ num_cols = nc
          /\ num_rows = nr
          /\ old = [data |-> [k \in 1..(nc * nr) |-> k - 1], num_cols |-> nc, num_rows |-> nr]
    /\ pc = "idle"
    /\ drain = NoDrain
    /\ yielded = <<>>
    /\ dropped = <<>>
    /\ cp = NoCp
    /\ view = NoView
    /\ iter = NoIter
    /\ last = NoOp

\* the keys a comparison may order the cells 0..len-1 by
KeyFns == [1..len -> 0..MaxKey]
SortUnchanged == UNCHANGED <<len, num_cols, num_rows, pc, drain, yielded, dropped, cp, view, iter, old>>

SortByRow ==
    \E row \in 0..(num_rows - 1), f \in KeyFns :
        /\ last.op = "none"
        /\ data' = SortByRowData(data, num_cols, num_rows, row, f)
        /\ last' = Op("sort_by_row", row, 0, f, <<>>)
        /\ SortUnchanged

SortByCol ==
    \E col \in 0..(num_cols - 1), f \in KeyFns :
        /\ last.op = "none"
        /\ data' = SortByColData(data, num_cols, num_rows, col, f)
        /\ last' = Op("sort_by_col", col, 0, f, <<>>)
        /\ SortUnchanged

\* sort_by_col_key: `self.sort_by_row(col, |a, b| f(a).cmp(&f(b)))`, which
\* asserts col < num_rows
SortByColKey ==
    \E col \in 0..(num_cols - 1), f \in KeyFns :
        /\ last.op = "none"
        /\ IF col < num_rows
           THEN /\ data' = SortByRowData(data, num_cols, num_rows, col, f)
                /\ last' = Op("sort_by_col_key", col, 0, f, <<>>)
           ELSE /\ data' = data
                /\ last' = Panicked("sort_by_col_key", col, 0, f)
        /\ SortUnchanged

\* sort_unstable_by_col_key: `self.sort_unstable_by_row(col, ...)`
SortUnstableByColKey ==
    \E col \in 0..(num_cols - 1), f \in KeyFns :
        /\ last.op = "none"
        /\ IF col < num_rows
           THEN /\ \E ord \in SortedOrders(Row(data, num_cols, col), f) :
                      data' = SortUnstableByRowData(data, num_cols, num_rows, col, ord)
                /\ last' = Op("sort_unstable_by_col_key", col, 0, f, <<>>)
           ELSE /\ data' = data
                /\ last' = Panicked("sort_unstable_by_col_key", col, 0, f)
        /\ SortUnchanged

NextSort == SortByRow \/ SortByCol \/ SortByColKey \/ SortUnstableByColKey

SpecSort == InitSort /\ [][NextSort]_vars

\* the swap trace of an ordering by itself: the longest ordering taken
MaxPerm == 5

\* the orderings a sort hands to sorted_box_to_ordering: ord[i] is the
\* original index of the element that belongs at position i - 1
Orderings(n) == {ord \in [1..n -> 0..(n - 1)] : \A i, j \in 1..n : ord[i] = ord[j] => i = j}

\* a sort has left the pairs in the order `ord`
InitTrace ==
    /\ \E n \in 0..MaxPerm : \E ord \in Orderings(n) : old = [ordering |-> ord]
    /\ data = <<>>
    /\ len = 0
    /\ num_cols = 0
    /\ num_rows = 0
    /\ pc = "idle"
    /\ drain = NoDrain
    /\ yielded = <<>>
    /\ dropped = <<>>
    /\ cp = NoCp
    /\ view = NoView
    /\ iter = NoIter
    /\ last = NoOp

\* `build_swap_trace(&mut sorted_box_to_ordering(sort_data))`
BuildSwapTrace ==
    /\ last.op = "none"
    /\ last' = Op("build_swap_trace", 0, 0, old.ordering,
                  build_swap_trace(SortedBoxToOrdering(old.ordering)))
    /\ UNCHANGED <<data, len, num_cols, num_rows, pc, drain, yielded, dropped, cp, view,
                   iter, old>>

NextTrace == BuildSwapTrace

SpecTrace == InitTrace /\ [][NextTrace]_vars

\* ------------------------------------------------------------------ views
MaxVCols == 3
MaxVRows == 3

\* the values of a slice of data
SliceVals(sl) == SubSeq(data, sl.start + 1, sl.start + sl.len)

\* the assertions of calculate_view_dimensions, for an area of nc x nr
ViewRequestOk(start, end, nc, nr) ==
    /\ end[1] >= start[1]
    /\ end[2] >= start[2]
    /\ end[1] <= nc
    /\ end[2] <= nr

\* calculate_view_dimensions, its assertions passed: (num_cols, num_rows)
calculate_view_dimensions(start, end) ==
    IF end[1] - start[1] = 0 \/ end[2] - start[2] = 0
    THEN <<0, 0>>
    ELSE <<end[1] - start[1], end[2] - start[2]>>

\* `data_start` and `data_len` of the view constructors
DataStart(start, main_cols) == start[2] * main_cols + start[1]
DataLen(nc, nr, main_cols) == IF nr = 0 THEN 0 ELSE (nr - 1) * main_cols + nc

\* a view constructor that takes the requested start for the view's start,
\* without adding the parent's own start
MakeViewLocalStart(kind, parent, origin, main_cols, start, end) ==
    LET dims == calculate_view_dimensions(start, end)
    IN  [kind |-> kind,
         data |-> Slice(parent.start + DataStart(start, main_cols),
                        DataLen(dims[1], dims[2], main_cols)),
         num_cols |-> dims[1],
         num_rows |-> dims[2],
         main_cols |-> main_cols,
         start |-> start]

\* the view that a view constructor builds over the parent slice `parent`
\* (the grid's data, or a view's), whose own start is `origin`
MakeView(kind, parent, origin, main_cols, start, end) ==
    LET dims == calculate_view_dimensions(start, end)
    IN  [kind |-> kind,
         data |-> Slice(parent.start + DataStart(start, main_cols),
                        DataLen(dims[1], dims[2], main_cols)),
         num_cols |-> dims[1],
         num_rows |-> dims[2],
         main_cols |-> main_cols,
         start |-> <<origin[1] + start[1], origin[2] + start[2]>>]

\* whether data_start..data_start + data_len lies within the parent slice:
\* the safety condition of get_unchecked(range), the check of parent[range]
RangeInBounds(parent, main_cols, start, end) ==
    LET dims == calculate_view_dimensions(start, end)
    IN  DataStart(start, main_cols) + DataLen(dims[1], dims[2], main_cols) <= parent.len

\* TooDeeView::from_toodee (TooDee::view) and TooDeeViewMut::from_toodee
\* (TooDee::view_mut)
InitView ==
    /\ \E nc \in 0..MaxVCols, nr \in 0..MaxVRows :
          /\ (nc = 0 <=> nr = 0)
          /\ data = [k \in 1..(nc * nr) |-> k - 1]
          /\ len = nc * nr
          /\ num_cols = nc
          /\ num_rows = nr
    /\ old = [view |-> NoView]
    /\ pc = "idle"
    /\ drain = NoDrain
    /\ yielded = <<>>
    /\ dropped = <<>>
    /\ cp = NoCp
    /\ view = NoView
    /\ iter = NoIter
    /\ last = NoOp

ViewCoords == (0..MaxVCols) \X (0..MaxVRows)
ViewUnchanged ==
    UNCHANGED <<data, len, num_cols, num_rows, pc, drain, yielded, dropped, cp, iter>>

\* a view constructor that slices with get_unchecked: a range outside the
\* parent slice is undefined behaviour, which a build without checks turns
\* into a slice outside the parent, and a build with the library's
\* precondition checks into an abort
UncheckedView(name, kind, parent, origin, main_cols, nc, nr) ==
    \E start \in ViewCoords, end \in ViewCoords :
        /\ ViewRequestOk(start, end, nc, nr)
        /\ \/ /\ view' = MakeView(kind, parent, origin, main_cols, start, end)
              /\ last' = Op(name, start, end, <<>>, <<>>)
           \/ /\ ~RangeInBounds(parent, main_cols, start, end)
              /\ view' = NoView
              /\ last' = Panicked(name, start, end, <<>>)
        /\ old' = [view |-> view]
        /\ ViewUnchanged

\* TooDee::view, on the grid as constructed
View ==
    /\ last.op = "none"
    /\ UncheckedView("view", "view", Slice(0, len), <<0, 0>>, num_cols, num_cols, num_rows)

\* TooDee::view_mut, on the grid as constructed
ViewMut ==
    /\ last.op = "none"
    /\ UncheckedView("view_mut", "view_mut", Slice(0, len), <<0, 0>>, num_cols, num_cols, num_rows)

\* TooDeeView::view
ViewOfView ==
    /\ view.kind = "view"
    /\ UncheckedView("view_of_view", "view", view.data, view.start, view.main_cols,
                     view.num_cols, view.num_rows)

\* TooDeeViewMut::view_mut
ViewMutOfViewMut ==
    /\ view.kind = "view_mut"
    /\ UncheckedView("view_mut_of_view_mut", "view_mut", view.data, view.start,
                     view.main_cols, view.num_cols, view.num_rows)

\* TooDeeViewMut::view, which slices with `&self.data[..]` and panics on a
\* range outside the parent slice
ViewOfViewMut ==
    /\ view.kind = "view_mut"
    /\ \E start \in ViewCoords, end \in ViewCoords :
          /\ ViewRequestOk(start, end, view.num_cols, view.num_rows)
          /\ IF RangeInBounds(view.data, view.main_cols, start, end)
             THEN /\ view' = MakeView("view", view.data, view.start, view.main_cols, start, end)
                  /\ last' = Op("view_of_view_mut", start, end, <<>>, <<>>)
             ELSE /\ view' = NoView
                  /\ last' = Panicked("view_of_view_mut", start, end, <<>>)
          /\ old' = [view |-> view]
          /\ ViewUnchanged

NextView == View \/ ViewMut \/ ViewOfView \/ ViewMutOfViewMut \/ ViewOfViewMut

SpecView == InitView /\ [][NextView]_vars

\* Index<Coordinate> for TooDeeView / TooDeeViewMut
ViewCell(v, c, r) == data[v.data.start + r * v.main_cols + c + 1]

\* TooDeeView::bounds / TooDeeViewMut::bounds
Bounds(v) == <<v.start, <<v.start[1] + v.num_cols, v.start[2] + v.num_rows>>>>

\* ------------------------------------------------------------ constructors
\* usize is WordBits wide: a size is a number below Word
WordBits == 4
Word == 2 ^ WordBits
Usize == 0..(Word - 1)
\* the longest vector handed to from_vec
MaxNewLen == 4

\* usize::checked_mul: None when the product does not fit
checked_mul(a, b) ==
    IF a * b < Word THEN [some |-> TRUE, val |-> a * b] ELSE [some |-> FALSE, val |-> 0]

\* `a * b` on usize in a build without overflow checks
wrapping_mul(a, b) == (a * b) % Word

\* usize::overflowing_mul: the wrapped product and whether it overflowed
overflowing_mul(a, b) == [val |-> (a * b) % Word, overflow |-> a * b >= Word]

\* the `if num_cols == 0 || num_rows == 0 { assert_eq!(num_rows, num_cols) }`
\* of init, from_vec and the view constructors
DimensionsAsserted(nc, nr) == (nc = 0 \/ nr = 0) => nr = nc

NewUnchanged == UNCHANGED <<pc, drain, yielded, dropped, cp, view, iter>>

\* the constructor returns TooDee { data, num_cols, num_rows }
Built(name, nc, nr, d, arg) ==
    /\ data' = d
    /\ len' = Len(d)
    /\ num_cols' = nc
    /\ num_rows' = nr
    /\ old' = Snapshot
    /\ last' = Op(name, nc, nr, arg, <<>>)
    /\ NewUnchanged

\* the constructor panics: no grid is returned
NotBuilt(name, nc, nr, arg) ==
    /\ UNCHANGED <<data, len, num_cols, num_rows>>
    /\ old' = Snapshot
    /\ last' = Panicked(name, nc, nr, arg)
    /\ NewUnchanged

\* TooDee::new, where T::default() is 0
New ==
    /\ last.op = "none"
    /\ \E nc \in Usize, nr \in Usize :
          LET size == checked_mul(nc, nr)
          IN  IF size.some
              THEN Built("new", nc, nr, [k \in 1..size.val |-> 0], <<>>)
              ELSE NotBuilt("new", nc, nr, <<>>)

\* TooDee::init
InitFill ==
    /\ last.op = "none"
    /\ \E nc \in Usize, nr \in Usize, init_value \in Vals :
          LET size == checked_mul(nr, nc)
          IN  IF DimensionsAsserted(nc, nr) /\ size.some
              THEN Built("init", nc, nr, [k \in 1..size.val |-> init_value], <<init_value>>)
              ELSE NotBuilt("init", nc, nr, <<init_value>>)

\* TooDee::from_vec
FromVec ==
    /\ last.op = "none"
    /\ \E nc \in Usize, nr \in Usize, n \in 0..MaxNewLen :
          \E v \in [1..n -> Vals] :
              LET size == checked_mul(nc, nr)
              IN  IF DimensionsAsserted(nc, nr) /\ size.some /\ size.val = Len(v)
                  THEN Built("from_vec", nc, nr, v, v)
                  ELSE NotBuilt("from_vec", nc, nr, v)

\* TooDeeView::new and TooDeeViewMut::new over the slice data[..len].
\* `num_cols * num_rows` is an unchecked multiplication: on overflow a build
\* with overflow checks panics and a build without them goes on with the
\* wrapped product.
SliceNew(name, kind) ==
    /\ ~last.panic
    /\ \E nc \in Usize, nr \in Usize :
          LET size == wrapping_mul(nc, nr)
          IN  /\ \/ /\ DimensionsAsserted(nc, nr)
                    /\ size <= len
                    /\ view' = [kind |-> kind, data |-> Slice(0, size), num_cols |-> nc,
                                num_rows |-> nr, main_cols |-> nc, start |-> <<0, 0>>]
                    /\ last' = Op(name, nc, nr, <<>>, <<>>)
                 \/ /\ \/ ~DimensionsAsserted(nc, nr)
                       \/ size > len
                       \/ nc * nr >= Word
                    /\ view' = NoView
                    /\ last' = Panicked(name, nc, nr, <<>>)
              /\ old' = [view |-> view]
              /\ ViewUnchanged

ViewNew ==
    /\ view = NoView
    /\ SliceNew("TooDeeView::new", "view")

ViewMutNew ==
    /\ view = NoView
    /\ SliceNew("TooDeeViewMut::new", "view_mut")

NextNew == New \/ InitFill \/ FromVec \/ ViewNew \/ ViewMutNew

SpecNew == Init /\ [][NextNew]_vars

\* ---------------------------------------------------------- deserialization
\* whether from_vec's assertions pass for (num_cols, num_rows, v)
FromVecAccepts(nc, nr, v) ==
    /\ DimensionsAsserted(nc, nr)
    /\ checked_mul(nc, nr).some
    /\ checked_mul(nc, nr).val = Len(v)

\* visit_map returns Err(..): no grid is built
Refused(name, nc, nr) ==
    /\ UNCHANGED <<data, len, num_cols, num_rows>>
    /\ old' = Snapshot
    /\ last' = Op(name, nc, nr, <<>>, <<"Err">>)
    /\ NewUnchanged

\* TooDeeVisitor::visit_map for a map that holds each of num_cols, num_rows
\* and data once: the two checks of visit_map, then TooDee::from_vec
VisitMap ==
    /\ last.op = "none"
    /\ \E nc \in Usize, nr \in Usize, n \in 0..MaxNewLen :
          \E v \in [1..n -> Vals] :
              LET m == overflowing_mul(nc, nr)
              IN  IF m.overflow \/ m.val # Len(v)
                  THEN Refused("visit_map", nc, nr)
                  ELSE IF FromVecAccepts(nc, nr, v)
                       THEN Built("visit_map", nc, nr, v, v)
                       ELSE NotBuilt("visit_map", nc, nr, v)

NextSerde == VisitMap

SpecSerde == Init /\ [][NextSerde]_vars

\* -------------------------------------------------------------- iterators
\* An iterator is a record: v (as v_start, v_len), cols and skip are the
\* fields of Rows (skip is skip_cols) or of Col; frontiter and backiter are
\* those of FlattenExact, whose `iter` is the Rows part of the same record.
\* A call gives [it |-> the iterator after it, item |-> an Option of a slice].
Empty(it) == [it EXCEPT !.v_start = 0, !.v_len = 0]
Ret(it, item) == [it |-> it, item |-> item]

\* TooDeeView::rows / TooDeeViewMut::rows (TooDee::rows for the full area)
RowsOf(v) ==
    [kind |-> "rows", v_start |-> v.data.start, v_len |-> v.data.len, cols |-> v.num_cols,
     skip |-> v.main_cols - v.num_cols, frontiter |-> None, backiter |-> None]

\* Rows::next
RowsNext(it) ==
    IF it.v_len = 0 THEN Ret(it, None)
    ELSE Ret(IF it.v_len - it.cols = 0 THEN Empty(it)
             ELSE [it EXCEPT !.v_start = it.v_start + it.cols + it.skip,
                             !.v_len = it.v_len - it.cols - it.skip],
             Some(Slice(it.v_start, it.cols)))

\* Rows::next_back
RowsNextBack(it) ==
    IF it.v_len = 0 THEN Ret(it, None)
    ELSE Ret(IF it.v_len - it.cols = 0 THEN Empty(it)
             ELSE [it EXCEPT !.v_len = it.v_len - it.cols - it.skip],
             Some(Slice(it.v_start + it.v_len - it.cols, it.cols)))

\* an nth that takes n for the number of rows to pass over, the returned
\* one included
RowsNthCountsFromOne(it, n) ==
    LET start == (n - 1) * (it.cols + it.skip)
    IN  IF n = 0 THEN Ret(it, None)
        ELSE RowsNext(IF start >= it.v_len THEN Empty(it)
                      ELSE [it EXCEPT !.v_start = it.v_start + start,
                                      !.v_len = it.v_len - start])

\* Rows::nth
RowsNth(it, n) ==
    LET m == overflowing_mul(n, it.cols + it.skip)
        start == m.val
    IN  RowsNext(IF start >= it.v_len \/ m.overflow THEN Empty(it)
                 ELSE [it EXCEPT !.v_start = it.v_start + start, !.v_len = it.v_len - start])

\* Rows::nth_back
RowsNthBack(it, n) ==
    LET m == overflowing_mul(n, it.cols + it.skip)
        adj == m.val
    IN  RowsNextBack(IF adj >= it.v_len \/ m.overflow THEN Empty(it)
                     ELSE [it EXCEPT !.v_len = it.v_len - adj])

\* a size_hint that counts whole strides only, and so misses the last row,
\* which has no skipped columns after it
RowsLenWholeStrides(it) ==
    IF it.cols = 0 THEN 0
    ELSE LET denom == it.cols + it.skip
         IN  it.v_len \div denom

\* Rows::size_hint (and len)
RowsLen(it) ==
    IF it.cols = 0 THEN 0
    ELSE LET denom == it.cols + it.skip
         IN  (it.v_len \div denom) + ((it.v_len % denom) \div it.cols)

\* TooDeeView::col / TooDeeViewMut::col (TooDee::col for the full area)
ColOf(v, col) ==
    [kind |-> "col", v_start |-> v.data.start + col,
     v_len |-> IF v.num_rows = 0 THEN 0 ELSE (v.num_rows - 1) * v.main_cols + 1,
     cols |-> 1, skip |-> v.main_cols - 1, frontiter |-> None, backiter |-> None]

\* Col::next and Col::next_back, with their items
ColNextItem(it) ==
    IF it.v_len = 0 THEN Ret(it, None) ELSE Ret(ColNext(it), Some(Slice(it.v_start, 1)))
ColNextBackItem(it) ==
    IF it.v_len = 0 THEN Ret(it, None)
    ELSE Ret(ColNextBack(it), Some(Slice(it.v_start + it.v_len - 1, 1)))

\* Col::nth
ColNth(it, n) ==
    LET m == overflowing_mul(n, 1 + it.skip)
        start == m.val
    IN  ColNextItem(IF start >= it.v_len \/ m.overflow THEN Empty(it)
                    ELSE [it EXCEPT !.v_start = it.v_start + start, !.v_len = it.v_len - start])

\* Col::nth_back
ColNthBack(it, n) ==
    LET m == overflowing_mul(n, 1 + it.skip)
        adj == m.val
    IN  ColNextBackItem(IF adj >= it.v_len \/ m.overflow THEN Empty(it)
                        ELSE [it EXCEPT !.v_len = it.v_len - adj])

\* Col::size_hint (and len)
ColLen(it) ==
    LET denom == 1 + it.skip
    IN  (it.v_len \div denom) + (it.v_len % denom)

\* core::slice::Iter over a row, held in an Option as frontiter or backiter:
\* next, next_back, nth and nth_back give [rest, item]
IterNext(sl) ==
    IF sl.len = 0 THEN [rest |-> sl, item |-> None]
    ELSE [rest |-> [sl EXCEPT !.start = sl.start + 1, !.len = sl.len - 1],
          item |-> Some(Slice(sl.start, 1))]
IterNextBack(sl) ==
    IF sl.len = 0 THEN [rest |-> sl, item |-> None]
    ELSE [rest |-> [sl EXCEPT !.len = sl.len - 1],
          item |-> Some(Slice(sl.start + sl.len - 1, 1))]
IterNth(sl, n) ==
    IF n >= sl.len THEN [rest |-> [sl EXCEPT !.start = sl.start + sl.len, !.len = 0], item |-> None]
    ELSE [rest |-> [sl EXCEPT !.start = sl.start + n + 1, !.len = sl.len - n - 1],
          item |-> Some(Slice(sl.start + n, 1))]
IterNthBack(sl, n) ==
    IF n >= sl.len THEN [rest |-> [sl EXCEPT !.len = 0], item |-> None]
    ELSE [rest |-> [sl EXCEPT !.len = sl.len - n - 1],
          item |-> Some(Slice(sl.start + sl.len - 1 - n, 1))]

\* FlattenExact::new(self.rows()): TooDeeOps::cells
CellsOf(v) == [RowsOf(v) EXCEPT !.kind = "cells"]

\* the Rows part of a FlattenExact after a call on it
WithRows(it, rows) == [it EXCEPT !.v_start = rows.v_start, !.v_len = rows.v_len]

\* FlattenExact::next
RECURSIVE FlattenNext(_)
FlattenNext(it) ==
    IF it.frontiter.some /\ it.frontiter.len > 0
    THEN LET r == IterNext(it.frontiter)
         IN  Ret([it EXCEPT !.frontiter = r.rest], r.item)
    ELSE LET r == RowsNext(it)
         IN  IF ~r.item.some
             THEN IF it.backiter.some
                  THEN LET b == IterNext(it.backiter)
                       IN  Ret([it EXCEPT !.backiter = b.rest], b.item)
                  ELSE Ret(it, None)
             ELSE FlattenNext([WithRows(it, r.it) EXCEPT !.frontiter = r.item])

\* FlattenExact::next_back
RECURSIVE FlattenNextBack(_)
FlattenNextBack(it) ==
    IF it.backiter.some /\ it.backiter.len > 0
    THEN LET r == IterNextBack(it.backiter)
         IN  Ret([it EXCEPT !.backiter = r.rest], r.item)
    ELSE LET r == RowsNextBack(it)
         IN  IF ~r.item.some
             THEN IF it.frontiter.some
                  THEN LET f == IterNextBack(it.frontiter)
                       IN  Ret([it EXCEPT !.frontiter = f.rest], f.item)
                  ELSE Ret(it, None)
             ELSE FlattenNextBack([WithRows(it, r.it) EXCEPT !.backiter = r.item])

Min(a, b) == IF a < b THEN a ELSE b

\* FlattenExact::nth, from `let iter_skip = ...` on: frontiter is out of the
\* way and n counts from the first row of iter
FlattenNthRows(it, n) ==
    LET iter_skip == Min(RowsLen(it), n \div it.cols)
        r == RowsNth(it, iter_skip)
        n2 == n - iter_skip * it.cols
    IN  IF r.item.some
        THEN LET t == IterNth(r.item, n2)
             IN  Ret([WithRows(it, r.it) EXCEPT !.frontiter = t.rest], t.item)
        ELSE IF it.backiter.some
             THEN LET b == IterNth(it.backiter, n2)
                  IN  Ret([WithRows(it, r.it) EXCEPT !.backiter = b.rest], b.item)
             ELSE Ret(WithRows(it, r.it), None)

\* an nth that drops the front row without taking its cells off n
FlattenNthKeepCount(it, n) ==
    IF it.cols = 0 THEN Ret(it, None)
    ELSE IF it.frontiter.some
         THEN IF n < it.frontiter.len
              THEN LET r == IterNth(it.frontiter, n)
                   IN  Ret([it EXCEPT !.frontiter = r.rest], r.item)
              ELSE FlattenNthRows([it EXCEPT !.frontiter = None], n)
         ELSE FlattenNthRows(it, n)

\* FlattenExact::nth
FlattenNth(it, n) ==
    IF it.cols = 0 THEN Ret(it, None)
    ELSE IF it.frontiter.some
         THEN IF n < it.frontiter.len
              THEN LET r == IterNth(it.frontiter, n)
                   IN  Ret([it EXCEPT !.frontiter = r.rest], r.item)
              ELSE FlattenNthRows([it EXCEPT !.frontiter = None], n - it.frontiter.len)
         ELSE FlattenNthRows(it, n)

\* FlattenExact::nth_back, from `let iter_skip = ...` on
FlattenNthBackRows(it, n) ==
    LET iter_skip == Min(RowsLen(it), n \div it.cols)
        r == RowsNthBack(it, iter_skip)
        n2 == n - iter_skip * it.cols
    IN  IF r.item.some
        THEN LET t == IterNthBack(r.item, n2)
             IN  Ret([WithRows(it, r.it) EXCEPT !.backiter = t.rest], t.item)
        ELSE IF it.frontiter.some
             THEN LET f == IterNthBack(it.frontiter, n2)
                  IN  Ret([WithRows(it, r.it) EXCEPT !.frontiter = f.rest], f.item)
             ELSE Ret(WithRows(it, r.it), None)

\* FlattenExact::nth_back
FlattenNthBack(it, n) ==
    IF it.cols = 0 THEN Ret(it, None)
    ELSE IF it.backiter.some
         THEN IF n < it.backiter.len
              THEN LET r == IterNthBack(it.backiter, n)
                   IN  Ret([it EXCEPT !.backiter = r.rest], r.item)
              ELSE FlattenNthBackRows([it EXCEPT !.backiter = None], n - it.backiter.len)
         ELSE FlattenNthBackRows(it, n)

\* a size_hint that leaves out the cells of the back row
FlattenLenNoBack(it) ==
    it.cols * RowsLen(it)
        + (IF it.frontiter.some THEN it.frontiter.len ELSE 0)

\* FlattenExact::size_hint (and len)
FlattenLen(it) ==
    it.cols * RowsLen(it)
        + (IF it.frontiter.some THEN it.frontiter.len ELSE 0)
        + (IF it.backiter.some THEN it.backiter.len ELSE 0)

\* the calls by the kind of iterator
CallNext(it) ==
    CASE it.kind = "rows" -> RowsNext(it)
      [] it.kind = "col" -> ColNextItem(it)
      [] it.kind = "cells" -> FlattenNext(it)
CallNextBack(it) ==
    CASE it.kind = "rows" -> RowsNextBack(it)
      [] it.kind = "col" -> ColNextBackItem(it)
      [] it.kind = "cells" -> FlattenNextBack(it)
CallLen(it) ==
    CASE it.kind = "rows" -> RowsLen(it)
      [] it.kind = "col" -> ColLen(it)
      [] it.kind = "cells" -> FlattenLen(it)

\* what the iterator yields when it is run to the end with next(), and with
\* next_back(): the items, as slices, in the order they come
RECURSIVE Collect(_)
Collect(it) ==
    LET r == CallNext(it)
    IN  IF r.item.some THEN <<Slice(r.item.start, r.item.len)>> \o Collect(r.it) ELSE <<>>
RECURSIVE CollectBack(_)
CollectBack(it) ==
    LET r == CallNextBack(it)
    IN  IF r.item.some THEN <<Slice(r.item.start, r.item.len)>> \o CollectBack(r.it) ELSE <<>>

\* nth and nth_back by the kind of iterator
CallNth(it, n) ==
    CASE it.kind = "rows" -> RowsNth(it, n)
      [] it.kind = "col" -> ColNth(it, n)
      [] it.kind = "cells" -> FlattenNth(it, n)
CallNthBack(it, n) ==
    CASE it.kind = "rows" -> RowsNthBack(it, n)
      [] it.kind = "col" -> ColNthBack(it, n)
      [] it.kind = "cells" -> FlattenNthBack(it, n)

\* the largest n handed to nth and nth_back
MaxNth == 6

IterUnchanged ==
    UNCHANGED <<data, len, num_cols, num_rows, pc, drain, yielded, dropped, cp, view>>

\* an iterator is taken from the view in hand
Taken(name, col, it) ==
    /\ view.kind # "none"
    /\ iter = NoIter
    /\ iter' = it
    /\ old' = [iter |-> iter]
    /\ last' = Op(name, col, 0, <<>>, <<>>)
    /\ IterUnchanged

\* TooDeeOps::rows
TakeRows ==
    /\ iter = NoIter
    /\ Taken("rows", 0, RowsOf(view))

\* TooDeeOps::col, which asserts col < num_cols
TakeCol ==
    \E col \in 0..MaxVCols :
        IF col < view.num_cols
        THEN Taken("col", col, ColOf(view, col))
        ELSE /\ view.kind # "none"
             /\ iter = NoIter
             /\ last.op # "col"
             /\ UNCHANGED iter
             /\ old' = [iter |-> iter]
             /\ last' = Panicked("col", col, 0, <<>>)
             /\ IterUnchanged

\* TooDeeOps::cells
TakeCells ==
    /\ iter = NoIter
    /\ Taken("cells", 0, CellsOf(view))

\* a call on the iterator in hand: last.out is the Option it returned
Called(name, n, r) ==
    /\ iter' = r.it
    /\ old' = [iter |-> iter]
    /\ last' = Op(name, n, 0, <<>>, r.item)
    /\ IterUnchanged

IteratorNext ==
    /\ iter.kind # "none"
    /\ Called("next", 0, CallNext(iter))

IteratorNextBack ==
    /\ iter.kind # "none"
    /\ Called("next_back", 0, CallNextBack(iter))

IteratorNth ==
    /\ iter.kind # "none"
    /\ \E n \in 0..MaxNth : Called("nth", n, CallNth(iter, n))

IteratorNthBack ==
    /\ iter.kind # "none"
    /\ \E n \in 0..MaxNth : Called("nth_back", n, CallNthBack(iter, n))

NextIter ==
    \/ View
    \/ ViewMut
    \/ TakeRows
    \/ TakeCol
    \/ TakeCells
    \/ IteratorNext
    \/ IteratorNextBack
    \/ IteratorNth
    \/ IteratorNthBack

SpecIter == InitView /\ [][NextIter]_vars

\* ------------------------------------------------------ mutable iterators
\* the grid as an area: its rows start at offset 0 and lie num_cols apart
GridArea ==
    [kind |-> "grid", data |-> Slice(0, len), num_cols |-> num_cols, num_rows |-> num_rows,
     main_cols |-> num_cols, start |-> <<0, 0>>]

\* TooDee::rows_mut / TooDeeViewMut::rows_mut
RowsMutOf(v) == [RowsOf(v) EXCEPT !.kind = "rows_mut"]

\* RowsMut::next, next_back, nth and size_hint take self.v out with
\* mem::replace and then split it exactly as Rows does
RowsMutNext(it) == RowsNext(it)
RowsMutNextBack(it) == RowsNextBack(it)
RowsMutNth(it, n) == RowsNth(it, n)
RowsMutLen(it) == RowsLen(it)

\* `self.v = tmp.get_unchecked_mut(..self.v.len() - adj)` of RowsMut::nth_back
\* and ColMut::nth_back, where self.v was emptied by mem::replace just
\* before, so that self.v.len() is 0. With adj = 0 the iterator is left
\* empty. With adj > 0 the subtraction overflows: a build with overflow checks
\* panics; otherwise the range ..(Word - adj) is out of bounds for
\* get_unchecked_mut, which aborts under the library's precondition checks
\* and else yields a span that runs past the buffer.
\* The outcomes are [it, panic]; `wild` marks a span past the buffer.
TruncateMut(it, adj) ==
    IF adj = 0
    THEN {[it |-> [it EXCEPT !.v_len = 0], panic |-> FALSE, wild |-> FALSE]}
    ELSE {[it |-> Empty(it), panic |-> TRUE, wild |-> FALSE],
          [it |-> [it EXCEPT !.v_len = Word - adj], panic |-> FALSE, wild |-> TRUE]}

\* nth_back on a mutable iterator up to its final next_back: the outcomes
\* [it, panic, wild] of `if adj >= self.v.len() || overflow { self.v = &mut
\* [] } else { ... }`
NthBackMut(it, n, stride) ==
    LET m == overflowing_mul(n, stride)
        adj == m.val
    IN  IF adj >= it.v_len \/ m.overflow
        THEN {[it |-> Empty(it), panic |-> FALSE, wild |-> FALSE]}
        ELSE TruncateMut(it, adj)

\* `self.next_back()` at the end of nth_back, r being its result on t.it:
\* the outcome [it, item, panic, wild] of the call
NthBackOutcome(t, r) ==
    IF t.panic
    THEN [it |-> t.it, item |-> None, panic |-> TRUE, wild |-> FALSE]
    ELSE [it |-> r.it, item |-> r.item, panic |-> FALSE, wild |-> t.wild]

\* RowsMut::nth_back
RowsMutNthBack(it, n) ==
    {NthBackOutcome(t, RowsMutNextBack(t.it)) : t \in NthBackMut(it, n, it.cols + it.skip)}

\* TooDee::col_mut / TooDeeViewMut::col_mut
ColMutOf(v, col) == [ColOf(v, col) EXCEPT !.kind = "col_mut"]

\* ColMut::next, next_back, nth and size_hint: as Col's, on the span taken
\* out with mem::replace
ColMutNext(it) == ColNextItem(it)
ColMutNextBack(it) == ColNextBackItem(it)
ColMutNth(it, n) == ColNth(it, n)
ColMutLen(it) == ColLen(it)

\* ColMut::nth_back
ColMutNthBack(it, n) ==
    {NthBackOutcome(t, ColMutNextBack(t.it)) : t \in NthBackMut(it, n, 1 + it.skip)}

\* the calls by the kind of mutable iterator
MutNext(it) == IF it.kind = "rows_mut" THEN RowsMutNext(it) ELSE ColMutNext(it)
MutNextBack(it) == IF it.kind = "rows_mut" THEN RowsMutNextBack(it) ELSE ColMutNextBack(it)
MutNth(it, n) == IF it.kind = "rows_mut" THEN RowsMutNth(it, n) ELSE ColMutNth(it, n)
MutNthBack(it, n) ==
    IF it.kind = "rows_mut" THEN RowsMutNthBack(it, n) ELSE ColMutNthBack(it, n)
MutLen(it) == IF it.kind = "rows_mut" THEN RowsMutLen(it) ELSE ColMutLen(it)
MutKinds == {"rows_mut", "col_mut"}

\* TooDeeOpsMut::rows_mut on the view in hand
TakeRowsMut ==
    /\ view.kind = "view_mut"
    /\ Taken("rows_mut", 0, RowsMutOf(view))

\* TooDeeOpsMut::col_mut on the view in hand, which asserts col < num_cols
TakeColMut ==
    /\ view.kind = "view_mut"
    /\ \E col \in 0..MaxVCols :
          IF col < view.num_cols
          THEN Taken("col_mut", col, ColMutOf(view, col))
          ELSE /\ iter = NoIter
               /\ last.op # "col_mut"
               /\ UNCHANGED iter
               /\ old' = [iter |-> iter]
               /\ last' = Panicked("col_mut", col, 0, <<>>)
               /\ IterUnchanged

MutIteratorNext ==
    /\ iter.kind \in MutKinds
    /\ Called("next", 0, MutNext(iter))

MutIteratorNextBack ==
    /\ iter.kind \in MutKinds
    /\ Called("next_back", 0, MutNextBack(iter))

MutIteratorNth ==
    /\ iter.kind \in MutKinds
    /\ \E n \in 0..MaxNth : Called("nth", n, MutNth(iter, n))

\* nth_back: a span past the buffer ends the iterator's defined behaviour
MutIteratorNthBack ==
    /\ iter.kind \in MutKinds
    /\ \E n \in 0..MaxNth :
          \E r \in MutNthBack(iter, n) :
              /\ iter' = IF r.wild THEN [r.it EXCEPT !.kind = "wild"] ELSE r.it
              /\ old' = [iter |-> iter]
              /\ last' = IF r.panic THEN Panicked("nth_back", n, 0, <<>>)
                         ELSE Op("nth_back", n, 0, <<>>, r.item)
              /\ IterUnchanged

NextIterMut ==
    \/ ViewMut
    \/ TakeRowsMut
    \/ TakeColMut
    \/ MutIteratorNext
    \/ MutIteratorNextBack
    \/ MutIteratorNth
    \/ MutIteratorNthBack

SpecIterMut == InitView /\ [][NextIterMut]_vars

\* ----------------------------------------------------------- row operations
\* ptr::swap_nonoverlapping(first, second, n) / swap_with_slice on the spans
\* of n cells at offsets a and b
SwapSpans(m, a, b, n) ==
    [k \in 1..Len(m) |->
        IF k - 1 >= a /\ k - 1 < a + n THEN m[k - a + b]
        ELSE IF k - 1 >= b /\ k - 1 < b + n THEN m[k - b + a]
        ELSE m[k]]

LessOf(r1, r2) == IF r1 < r2 THEN r1 ELSE r2
GreaterOf(r1, r2) == IF r1 < r2 THEN r2 ELSE r1

\* TooDee::swap_rows: [panic, data]
SwapRowsTooDee(m, nc, nr, r1, r2) ==
    IF r1 = r2 THEN [panic |-> FALSE, data |-> m]
    ELSE LET lo == LessOf(r1, r2)
             hi == GreaterOf(r1, r2)
             first == lo * nc
             snd_idx == (hi - lo - 1) * nc
         IN  IF ~(hi < nr) THEN [panic |-> TRUE, data |-> m]
             ELSE [panic |-> FALSE, data |-> SwapSpans(m, first, first + nc + snd_idx, nc)]

\* TooDeeViewMut::swap_rows, on the view v
SwapRowsViewMut(m, v, r1, r2) ==
    IF r1 = r2 THEN [panic |-> FALSE, data |-> m]
    ELSE LET lo == LessOf(r1, r2)
             hi == GreaterOf(r1, r2)
             first == v.data.start + lo * v.main_cols
             snd_idx == (hi - lo) * v.main_cols - v.num_cols
         IN  IF ~(hi < v.num_rows) THEN [panic |-> TRUE, data |-> m]
             ELSE [panic |-> FALSE,
                   data |-> SwapSpans(m, first, first + v.num_cols + snd_idx, v.num_cols)]

\* TooDeeOpsMut::swap_rows, the trait's default, on the area v
SwapRowsDefault(m, v, r1, r2) ==
    IF r1 = r2 THEN [panic |-> FALSE, data |-> m]
    ELSE LET lo == LessOf(r1, r2)
             hi == GreaterOf(r1, r2)
             tmp == RowsMutNth(RowsMutOf(v), lo)
             other == RowsMutNth(tmp.it, hi - lo - 1)
         IN  IF ~(hi < v.num_rows) \/ ~tmp.item.some \/ ~other.item.some
             THEN [panic |-> TRUE, data |-> m]
             ELSE [panic |-> FALSE,
                   data |-> SwapSpans(m, tmp.item.start, other.item.start, tmp.item.len)]

\* a row_pair_mut that hands out the upper row first whatever the order of
\* its arguments
RowPairMutSorted(v, r1, r2) ==
    IF ~(r1 < v.num_rows) \/ ~(r2 < v.num_rows) \/ ~(r1 # r2)
    THEN [panic |-> TRUE, first |-> None, second |-> None]
    ELSE LET tmp == RowsMutNth(RowsMutOf(v), LessOf(r1, r2))
             other == RowsMutNth(tmp.it, GreaterOf(r1, r2) - LessOf(r1, r2) - 1)
         IN  [panic |-> ~tmp.item.some \/ ~other.item.some,
              first |-> tmp.item, second |-> other.item]

\* TooDeeOpsMut::row_pair_mut on the area v: [panic, first, second]
RowPairMut(v, r1, r2) ==
    IF ~(r1 < v.num_rows) \/ ~(r2 < v.num_rows) \/ ~(r1 # r2)
    THEN [panic |-> TRUE, first |-> None, second |-> None]
    ELSE IF r1 < r2
         THEN LET tmp == RowsMutNth(RowsMutOf(v), r1)
                  other == RowsMutNth(tmp.it, r2 - r1 - 1)
              IN  [panic |-> ~tmp.item.some \/ ~other.item.some,
                   first |-> tmp.item, second |-> other.item]
         ELSE LET tmp == RowsMutNth(RowsMutOf(v), r2)
                  other == RowsMutNth(tmp.it, r1 - r2 - 1)
              IN  [panic |-> ~tmp.item.some \/ ~other.item.some,
                   first |-> other.item, second |-> tmp.item]

\* the row indices handed to the row operations: one past the bound too
RowIndices == 0..(MaxVRows + 1)

RowsUnchanged == UNCHANGED <<len, num_cols, num_rows, pc, drain, yielded, dropped, cp, view, iter>>

\* a swap_rows call with outcome r on the area v
SwapRowsCalled(name, v, r1, r2, r) ==
    /\ data' = r.data
    /\ old' = [data |-> data, area |-> v]
    /\ last' = IF r.panic THEN Panicked(name, r1, r2, <<>>) ELSE Op(name, r1, r2, <<>>, <<>>)
    /\ RowsUnchanged

\* a row_pair_mut call on the area v
RowPairMutCalled(name, v) ==
    \E r1 \in RowIndices, r2 \in RowIndices :
        LET r == RowPairMut(v, r1, r2)
        IN  /\ old' = [data |-> data, area |-> v]
            /\ last' = IF r.panic THEN Panicked(name, r1, r2, <<>>)
                       ELSE Op(name, r1, r2, <<>>, <<r.first, r.second>>)
            /\ UNCHANGED data
            /\ RowsUnchanged

\* swap_rows on the grid
SwapRowsOfGrid ==
    /\ last.op = "none"
    /\ \E r1 \in RowIndices, r2 \in RowIndices :
          SwapRowsCalled("swap_rows", GridArea, r1, r2,
                         SwapRowsTooDee(data, num_cols, num_rows, r1, r2))

\* swap_rows on a TooDeeViewMut of the grid
SwapRowsOfViewMut ==
    /\ last.op = "view_mut"
    /\ view.kind = "view_mut"
    /\ \E r1 \in RowIndices, r2 \in RowIndices :
          SwapRowsCalled("view_mut.swap_rows", view, r1, r2,
                         SwapRowsViewMut(data, view, r1, r2))

\* the trait's swap_rows on an area that does not override it, laid out as
\* the view in hand
SwapRowsOfOther ==
    /\ last.op = "view_mut"
    /\ view.kind = "view_mut"
    /\ \E r1 \in RowIndices, r2 \in RowIndices :
          SwapRowsCalled("default.swap_rows", view, r1, r2,
                         SwapRowsDefault(data, view, r1, r2))

\* row_pair_mut on the grid
RowPairMutOfGrid ==
    /\ last.op = "none"
    /\ RowPairMutCalled("row_pair_mut", GridArea)

\* row_pair_mut on a TooDeeViewMut of the grid
RowPairMutOfViewMut ==
    /\ last.op = "view_mut"
    /\ view.kind = "view_mut"
    /\ RowPairMutCalled("view_mut.row_pair_mut", view)

NextRows ==
    \/ ViewMut
    \/ SwapRowsOfGrid
    \/ SwapRowsOfViewMut
    \/ SwapRowsOfOther
    \/ RowPairMutOfGrid
    \/ RowPairMutOfViewMut

SpecRows == InitView /\ [][NextRows]_vars

\* ------------------------------------------------------------ copy_within
\* The area copy_within works on is the grid or a TooDeeViewMut: its rows
\* start at offset `base` of data and lie `stride` apart.
\* `d[dc..dc + cols].copy_from_slice(&s[c0..c0 + cols])` for the rows s_row and
\* d_row of the area, and `row_data.copy_within(c0..c0 + cols, dc)` when they
\* are the same row: the source cells are read before any is written
CopyRow(m, base, stride, s_row, d_row, c0, cols, dc) ==
    PtrCopy(m, base + s_row * stride + c0, base + d_row * stride + dc, cols)

\* `for r in top_left.1..bottom_right.1`, from row r on
RECURSIVE CopyRowsForward(_, _, _, _, _, _, _)
CopyRowsForward(m, base, stride, r, top_left, bottom_right, dest) ==
    IF r >= bottom_right[2] THEN m
    ELSE CopyRowsForward(CopyRow(m, base, stride, r, r - top_left[2] + dest[2], top_left[1],
                                 bottom_right[1] - top_left[1], dest[1]),
                         base, stride, r + 1, top_left, bottom_right, dest)

\* `for r in (top_left.1..bottom_right.1).rev()`, from row r down
RECURSIVE CopyRowsBackward(_, _, _, _, _, _, _)
CopyRowsBackward(m, base, stride, r, top_left, bottom_right, dest) ==
    IF r < top_left[2] THEN m
    ELSE CopyRowsBackward(CopyRow(m, base, stride, r, r + (dest[2] - top_left[2]), top_left[1],
                                  bottom_right[1] - top_left[1], dest[1]),
                          base, stride, r - 1, top_left, bottom_right, dest)

\* a copy_within that walks the rows top to bottom whatever the direction
CopyWithinTopDown(m, base, stride, top_left, bottom_right, dest) ==
    CopyRowsForward(m, base, stride, top_left[2], top_left, bottom_right, dest)

\* copy_within, its assertions passed: the row order depends on
\* top_left.1.cmp(&dest.1)
CopyWithinData(m, base, stride, top_left, bottom_right, dest) ==
    IF top_left[2] < dest[2]
    THEN CopyRowsBackward(m, base, stride, bottom_right[2] - 1, top_left, bottom_right, dest)
    ELSE CopyRowsForward(m, base, stride, top_left[2], top_left, bottom_right, dest)

\* the assertions of copy_within on an area of nc x nr
CopyWithinOk(nc, nr, top_left, bottom_right, dest) ==
    /\ top_left[1] <= bottom_right[1]
    /\ top_left[2] <= bottom_right[2]
    /\ bottom_right[1] <= nc
    /\ bottom_right[2] <= nr
    /\ dest[1] + (bottom_right[1] - top_left[1]) <= nc
    /\ dest[2] + (bottom_right[2] - top_left[2]) <= nr

\* the coordinates handed to copy_within on an area of nc x nr: those of the
\* area and, where the bounds allow, one column and one row beyond it
CopyCoords(nc, nr) == (0..Min(nc + 1, MaxVCols)) \X (0..Min(nr + 1, MaxVRows))

\* CopyOps::copy_within on an area
DoCopyWithin(name, base, stride, nc, nr) ==
    \E top_left \in CopyCoords(nc, nr), bottom_right \in CopyCoords(nc, nr),
       dest \in CopyCoords(nc, nr) :
        /\ IF CopyWithinOk(nc, nr, top_left, bottom_right, dest)
           THEN /\ data' = CopyWithinData(data, base, stride, top_left, bottom_right, dest)
                /\ last' = Op(name, <<top_left, bottom_right>>, dest, <<>>, <<>>)
           ELSE /\ UNCHANGED data
                /\ last' = Panicked(name, <<>>, <<>>, <<>>)
        /\ old' = [data |-> data, base |-> base, stride |-> stride]
        /\ UNCHANGED <<len, num_cols, num_rows, pc, drain, yielded, dropped, cp, view, iter>>

\* copy_within on the grid
CopyWithin ==
    /\ last.op = "none"
    /\ DoCopyWithin("copy_within", 0, num_cols, num_cols, num_rows)

\* copy_within on a TooDeeViewMut of the grid
CopyWithinViewMut ==
    /\ last.op = "view_mut"
    /\ view.kind = "view_mut"
    /\ DoCopyWithin("view_mut.copy_within", view.data.start, view.main_cols,
                    view.num_cols, view.num_rows)

NextCopy == CopyWithin \/ ViewMut \/ CopyWithinViewMut

SpecCopy == InitView /\ [][NextCopy]_vars

\* ------------------------------------------------- claims on the TooDee
OldCell(c, r) == Cell(old.data, old.num_cols, c, r)
NewCell(c, r) == Cell(data, num_cols, c, r)
ColumnRemoved == pc = "idle" /\ last.op \in {"remove_col", "pop_col"}

\* C1: once a DrainCol is dropped, however many of its elements were taken
\* from the front or the back, the grid has one column less and the same
\* rows (0x0 when no column is left), its buffer has (cols - 1) * rows
\* elements, and cell (c, r) is the old (c, r) left of the removed column
\* and the old (c + 1, r) from it on.
RemoveColLeavesOtherColumns ==
    ColumnRemoved =>
        /\ num_cols = old.num_cols - 1
        /\ num_rows = (IF old.num_cols - 1 = 0 THEN 0 ELSE old.num_rows)
        /\ len = (old.num_cols - 1) * old.num_rows
        /\ Len(data) = len
        /\ \A c \in 0..(old.num_cols - 2), r \in 0..(old.num_rows - 1) :
              NewCell(c, r) = (IF c < last.a THEN OldCell(c, r) ELSE OldCell(c + 1, r))

\* a middle column of a 3x2 grid was removed; one element was taken, the
\* other was left to the drop
RemoveColAbandonedWitness ==
    /\ ColumnRemoved
    /\ old.num_cols = 3 /\ old.num_rows = 2 /\ last.a = 1
    /\ Len(last.out) = 1 /\ Len(dropped) = 1

\* C2: whenever no drain is live, cols = 0 exactly if rows = 0, and the
\* buffer holds cols * rows elements.
DimensionsAgree ==
    pc = "idle" =>
        /\ (num_cols = 0 <=> num_rows = 0)
        /\ len = num_cols * num_rows
        /\ Len(data) = len

\* the only column of a grid with several rows was removed
LastColumnGoneWitness ==
    /\ ColumnRemoved
    /\ old.num_cols = 1 /\ old.num_rows = 3
    /\ num_cols = 0 /\ num_rows = 0 /\ len = 0

RowInserted == pc = "idle" /\ last.op \in {"insert_row", "push_row"}
ColInserted == pc = "idle" /\ last.op \in {"insert_col", "push_col"}

\* remove_row(last.a) on the present grid returns the row just inserted and
\* leaves the grid as it was before the insertion
RemoveRowUndoesInsert ==
    /\ last.a < num_rows
    /\ RemoveRowOut(data, num_cols, last.a) = last.arg
    /\ RemoveRowData(data, num_cols, last.a) = old.data
    /\ num_rows - 1 = old.num_rows
    /\ RemoveRowCols(num_cols, num_rows) = old.num_cols

\* remove_col(last.a) on the present grid, consumed to the end with next()
\* and dropped, yields the column just inserted and leaves the grid as it
\* was before the insertion
RemoveColUndoesInsert ==
    /\ last.a < num_cols
    /\ Exhaust(data, RemoveColDrain(len, num_cols, last.a)) = last.arg
    /\ LET nc == num_cols - 1
           nr == DropGuardRows(num_cols, num_rows)
       IN  /\ SubSeq(Compact(data, last.a, num_cols, num_rows), 1, nc * nr) = old.data
           /\ nc = old.num_cols
           /\ nr = old.num_rows

\* C10, as the claim states it: insert_row(i, row) then remove_row(i), and insert_col(i,
\* col) then remove_col(i) consumed to the end, give back the inserted
\* elements in order and restore buffer and dimensions, for every grid,
\* index and row or column of matching length.
InsertRemoveRoundTrip ==
    /\ RowInserted => RemoveRowUndoesInsert
    /\ ColInserted => RemoveColUndoesInsert

\* C10: insert_row(i, row) then remove_row(i), and insert_col(i, col) then
\* remove_col(i) consumed to the end, give back the inserted elements in
\* order and restore buffer and dimensions, for every grid (the empty one
\* included), index and row or column of at least one element. (An empty
\* row or column put into the empty grid leaves it 0x0, with nothing to
\* remove.)
InsertRemoveRoundTripNonEmpty ==
    /\ RowInserted /\ last.arg # <<>> => RemoveRowUndoesInsert
    /\ ColInserted /\ last.arg # <<>> => RemoveColUndoesInsert

\* a column of two distinct elements was put in the middle of a 2x2 grid
InsertColMiddleWitness ==
    /\ ColInserted
    /\ old.num_cols = 2 /\ old.num_rows = 2 /\ last.a = 1
    /\ last.arg = <<0, 1>>

\* the grid is the old one with last.arg as its column last.a
ColumnPlaced ==
    /\ num_cols = old.num_cols + 1
    /\ num_rows = Len(last.arg)
    /\ old.num_cols > 0 => num_rows = old.num_rows
    /\ len = num_cols * num_rows
    /\ Len(data) = len
    /\ \A c \in 0..(num_cols - 1), r \in 0..(num_rows - 1) :
          NewCell(c, r) = (IF c < last.a THEN OldCell(c, r)
                           ELSE IF c = last.a THEN last.arg[r + 1]
                           ELSE OldCell(c - 1, r))

\* C11, as the claim states it: after insert_col(i, data) with len(data) =
\* rows and i <= cols the grid is (cols + 1) x rows, with data as column i
\* and the old columns around it; the empty grid takes rows from len(data).
InsertColPlacesColumnAlways == ColInserted => ColumnPlaced

\* C11: the same for data of at least one element. (Empty data put into
\* the empty grid leaves it 0x0, not 1x0.)
InsertColPlacesColumn == ColInserted /\ last.arg # <<>> => ColumnPlaced

\* a column of two distinct elements was put in front of a 2x2 grid
InsertColFrontWitness ==
    /\ ColInserted
    /\ old.num_cols = 2 /\ old.num_rows = 2 /\ last.a = 0
    /\ last.arg = <<1, 0>>
    /\ old.data = <<0, 1, 1, 0>>

\* C12: when the source of insert_row or insert_col panics or runs out
\* after the shifting has started, the grid the caller is left with has
\* len(buffer) = cols * rows and cols = 0 exactly if rows = 0.
GridWholeAfterFault ==
    pc = "faulted" =>
        /\ len = num_cols * num_rows
        /\ (num_cols = 0 <=> num_rows = 0)

\* --------------------------------------------------------- claims on views
\* the values of the rows that rows() of the view in hand yields, in order
ViewRowsYielded ==
    LET got == Collect(RowsOf(view)) IN [i \in 1..Len(got) |-> SliceVals(got[i])]

\* the rows of the grid's rectangle that starts at s and is w wide, h high
RectangleRows(s, w, h) ==
    [r \in 1..h |-> [c \in 1..w |-> Cell(data, num_cols, s[1] + c - 1, s[2] + r - 1)]]

\* C13: for every rectangle start <= end <= extents, view and view_mut of
\* a grid give a view whose size is the rectangle's (0 x 0 if either extent
\* is 0), whose cell (c, r) is the grid's (start.0 + c, start.1 + r), whose
\* rows() yields the rectangle's rows in order, and whose rows() and cells()
\* yield nothing for an empty rectangle.
ViewShowsRectangle ==
    last.op \in {"view", "view_mut"} =>
        LET w == last.b[1] - last.a[1]
            h == last.b[2] - last.a[2]
            nc == IF w = 0 \/ h = 0 THEN 0 ELSE w
            nr == IF w = 0 \/ h = 0 THEN 0 ELSE h
        IN  /\ ~last.panic
            /\ view.num_cols = nc /\ view.num_rows = nr
            /\ \A c \in 0..(nc - 1), r \in 0..(nr - 1) :
                  ViewCell(view, c, r) = Cell(data, num_cols, last.a[1] + c, last.a[2] + r)
            /\ ViewRowsYielded = RectangleRows(last.a, nc, nr)
            /\ nc = 0 => Collect(RowsOf(view)) = <<>> /\ Collect(CellsOf(view)) = <<>>

\* the calls that take a view, and the slice and row width they take it of
ViewCalls == {"view", "view_mut", "view_of_view", "view_mut_of_view_mut", "view_of_view_mut"}
ParentSpan == IF last.op \in {"view", "view_mut"} THEN Slice(0, len) ELSE old.view.data
ParentMainCols == IF last.op \in {"view", "view_mut"} THEN num_cols ELSE old.view.main_cols

\* C29: for every request start <= end <= extents that a grid or a view
\* accepts, empty rectangles on the right or bottom edge among them, the
\* range data_start..data_start + data_len lies within the parent's slice
ViewSpanInsideParent ==
    last.op \in ViewCalls => RangeInBounds(ParentSpan, ParentMainCols, last.a, last.b)

Nested == last.op \in {"view_of_view", "view_mut_of_view_mut", "view_of_view_mut"} /\ ~last.panic

\* C14: a view taken from a view has the grid's row width as its stride,
\* its cell (c, r) is the grid's (s1.0 + s2.0 + c, s1.1 + s2.1 + r) for the
\* parent's start s1 and the requested start s2, and when it is not empty
\* its bounds() are (s1 + s2, s1 + e2).
NestedViewComposes ==
    Nested =>
        LET s1 == old.view.start
            s2 == last.a
            e2 == last.b
        IN  /\ view.main_cols = num_cols
            /\ \A c \in 0..(view.num_cols - 1), r \in 0..(view.num_rows - 1) :
                  ViewCell(view, c, r) = Cell(data, num_cols, s1[1] + s2[1] + c, s1[2] + s2[2] + r)
            /\ view.num_cols > 0 =>
                  Bounds(view) = <<<<s1[1] + s2[1], s1[2] + s2[2]>>, <<s1[1] + e2[1], s1[2] + e2[2]>>>>

\* a 1x1 view taken at (1, 0) of a 2x2 view that starts at (1, 1)
NestedViewWitness ==
    /\ Nested
    /\ old.view.start = <<1, 1>> /\ old.view.num_cols = 2 /\ old.view.num_rows = 2
    /\ last.a = <<1, 0>> /\ last.b = <<2, 1>>
    /\ view.num_cols = 1 /\ view.num_rows = 1
    /\ ViewCell(view, 0, 0) = 5

\* -------------------------------------------------- claims on constructors
Constructors == {"new", "init", "from_vec"}
SliceConstructors == {"TooDeeView::new", "TooDeeViewMut::new"}

\* C15: a call of TooDee::new, TooDee::init or TooDee::from_vec with exactly
\* one of num_cols and num_rows zero panics, and the grid in hand never has
\* one zero and one non-zero dimension
ConstructorsRejectHalfEmpty ==
    /\ last.op \in Constructors /\ (last.a = 0) # (last.b = 0) => last.panic
    /\ last.op \in Constructors \cup {"none"} => (num_cols = 0 <=> num_rows = 0)

\* C16: a call of TooDeeView::new or TooDeeViewMut::new whose
\* num_cols * num_rows does not fit the machine word panics, and every view
\* they return has num_cols * num_rows <= the slice's length in unbounded
\* arithmetic
SliceConstructorsRejectOverflow ==
    last.op \in SliceConstructors =>
        /\ last.a * last.b >= Word => last.panic
        /\ ~last.panic => view.num_cols * view.num_rows <= len

\* ----------------------------------------------------- claims on iterators
IteratorCalls == {"next", "next_back", "nth", "nth_back"}
Reverse(q) == [k \in 1..Len(q) |-> q[Len(q) + 1 - k]]

\* the rows of the view, the cells of its column c and its cells in
\* row-major order, as slices of data
ExpectedRows(v) ==
    [r \in 1..v.num_rows |-> Slice(v.data.start + (r - 1) * v.main_cols, v.num_cols)]
ExpectedCol(v, c) ==
    [r \in 1..v.num_rows |-> Slice(v.data.start + (r - 1) * v.main_cols + c, 1)]
ExpectedCells(v) ==
    [k \in 1..(v.num_cols * v.num_rows) |->
        Slice(v.data.start + ((k - 1) \div v.num_cols) * v.main_cols + ((k - 1) % v.num_cols), 1)]

\* a double-ended queue q: what a call returns, and what is left after it
DequeItem(q, op, n) ==
    CASE op = "next" -> IF q = <<>> THEN None ELSE Some(q[1])
      [] op = "next_back" -> IF q = <<>> THEN None ELSE Some(q[Len(q)])
      [] op = "nth" -> IF n < Len(q) THEN Some(q[n + 1]) ELSE None
      [] op = "nth_back" -> IF n < Len(q) THEN Some(q[Len(q) - n]) ELSE None
DequeAfter(q, op, n) ==
    CASE op = "next" -> SubSeq(q, 2, Len(q))
      [] op = "next_back" -> SubSeq(q, 1, Len(q) - 1)
      [] op = "nth" -> SubSeq(q, n + 2, Len(q))
      [] op = "nth_back" -> SubSeq(q, 1, Len(q) - n - 1)

\* C17: whatever calls were made on a Rows or Col iterator, len() is the
\* number of items the remaining next() calls produce, and the number the
\* remaining next_back() calls produce; a Rows with cols = 0 reports 0 and
\* returns None
RowsColLenExact ==
    iter.kind \in {"rows", "col"} =>
        /\ CallLen(iter) = Len(Collect(iter))
        /\ CallLen(iter) = Len(CollectBack(iter))
        /\ iter.cols = 0 =>
              /\ CallLen(iter) = 0
              /\ ~CallNext(iter).item.some
              /\ ~CallNextBack(iter).item.some

RowsColLenWitness ==
    /\ iter.kind = "rows"
    /\ iter.skip > 0
    /\ last.op = "nth_back"
    /\ old.iter.kind = "rows"
    /\ old.iter.v_len < view.data.len
    /\ CallLen(iter) = 1

\* C18: whatever calls were made on a FlattenExact, its len(), which is
\* num_cols * the rows left + the cells left in the front row + the cells
\* left in the back row, is the number of cells it still produces
FlattenLenExact ==
    iter.kind = "cells" =>
        /\ FlattenLen(iter) = Len(Collect(iter))
        /\ FlattenLen(iter) = Len(CollectBack(iter))

FlattenLenWitness ==
    /\ iter.kind = "cells"
    /\ iter.frontiter.some /\ iter.frontiter.len > 0
    /\ iter.backiter.some /\ iter.backiter.len > 0
    /\ RowsLen(iter) > 0
    /\ iter.skip > 0

\* C19: a FlattenExact starts as the view's cells in row-major order, and
\* each call returns what a double-ended queue of the cells left before it
\* returns and leaves what the queue leaves, the same from either end
FlattenIsDeque ==
    iter.kind = "cells" =>
        /\ last.op = "cells" => Collect(iter) = ExpectedCells(view)
        /\ last.op \in IteratorCalls =>
              LET before == Collect(old.iter)
              IN  /\ last.out = DequeItem(before, last.op, last.a)
                  /\ Collect(iter) = DequeAfter(before, last.op, last.a)
        /\ CollectBack(iter) = Reverse(Collect(iter))

FlattenDequeWitness ==
    /\ iter.kind = "cells"
    /\ last.op = "nth"
    /\ last.a >= view.num_cols
    /\ last.out.some
    /\ old.iter.backiter.some
    /\ old.iter.frontiter.some /\ old.iter.frontiter.len > 0
    /\ view.main_cols > view.num_cols

\* --------------------------------------------------- claims on copy_within
CopyCalls == {"copy_within", "view_mut.copy_within"}
\* the offset in data of the area's cell (c, r), and the offsets of the
\* rectangle of cols x rows cells at `at`
AreaOffset(c, r) == old.base + r * old.stride + c
RectOffsets(at, cols, rows) ==
    {AreaOffset(at[1] + i, at[2] + j) : i \in 0..(cols - 1), j \in 0..(rows - 1)}

\* C20: after copy_within((top_left, bottom_right), dest) the cell
\* (dest.0 + i, dest.1 + j) holds what (top_left.0 + i, top_left.1 + j) held
\* before the call, for every (i, j) of the rectangle, and every other cell
\* of the buffer holds what it held
CopyWithinAsThroughBuffer ==
    last.op \in CopyCalls /\ ~last.panic =>
        LET top_left == last.a[1]
            bottom_right == last.a[2]
            dest == last.b
            cols == bottom_right[1] - top_left[1]
            rows == bottom_right[2] - top_left[2]
        IN  /\ Len(data) = Len(old.data)
            /\ \A i \in 0..(cols - 1), j \in 0..(rows - 1) :
                  data[AreaOffset(dest[1] + i, dest[2] + j) + 1]
                      = old.data[AreaOffset(top_left[1] + i, top_left[2] + j) + 1]
            /\ \A k \in 0..(Len(data) - 1) :
                  k \notin RectOffsets(dest, cols, rows) => data[k + 1] = old.data[k + 1]

CopyWithinOverlapWitness ==
    /\ last.op = "copy_within"
    /\ ~last.panic
    /\ last.a = <<(<<0, 0>>), (<<2, 2>>)>>
    /\ last.b = <<1, 1>>
    /\ num_cols = 3
    /\ data[9] = old.data[5]
    /\ data # old.data

\* k calls of next(), and of next_back(), on the iterator: the outcome of
\* the last call
RECURSIVE NextTimes(_, _)
NextTimes(it, k) == IF k <= 1 THEN CallNext(it) ELSE NextTimes(CallNext(it).it, k - 1)
RECURSIVE NextBackTimes(_, _)
NextBackTimes(it, k) ==
    IF k <= 1 THEN CallNextBack(it) ELSE NextBackTimes(CallNextBack(it).it, k - 1)

\* the stride of a Rows or Col iterator: cols + skip_cols, or 1 + skip
Stride(it) == it.cols + it.skip

\* two iterators hold the same span: the same cells, or none
SameSpan(a, b) == a.v_len = b.v_len /\ (a.v_len > 0 => a.v_start = b.v_start)

\* C23: on a Rows or Col iterator nth(n) returns what the last of n + 1
\* next() calls returns and leaves the span they leave, and nth_back(n) the
\* same for next_back(); when fewer than n + 1 items were left, or
\* n * (cols + skip_cols) overflows, it returns None and leaves the iterator
\* exhausted
NthIsRepeatedNext ==
    iter.kind \in {"rows", "col"} /\ last.op \in {"nth", "nth_back"} =>
        LET r == IF last.op = "nth" THEN NextTimes(old.iter, last.a + 1)
                 ELSE NextBackTimes(old.iter, last.a + 1)
        IN  /\ last.out = r.item
            /\ SameSpan(iter, r.it)
            /\ (Len(Collect(old.iter)) < last.a + 1
                    \/ overflowing_mul(last.a, Stride(old.iter)).overflow) =>
                  /\ ~last.out.some
                  /\ Collect(iter) = <<>>
                  /\ CollectBack(iter) = <<>>
                  /\ CallLen(iter) = 0

NthOverflowWitness ==
    /\ iter.kind = "rows"
    /\ last.op = "nth"
    /\ overflowing_mul(last.a, Stride(old.iter)).overflow
    /\ wrapping_mul(last.a, Stride(old.iter)) < old.iter.v_len
    /\ old.iter.skip > 0

\* the Rows or Col iterator with the fields of a RowsMut or ColMut
AsImmutable(it) == [it EXCEPT !.kind = IF it.kind = "rows_mut" THEN "rows" ELSE "col"]
ImmutableCall(it, op, n) ==
    CASE op = "next" -> CallNext(it)
      [] op = "next_back" -> CallNextBack(it)
      [] op = "nth" -> CallNth(it, n)
      [] op = "nth_back" -> CallNthBack(it, n)

\* C24: each call on a RowsMut or ColMut returns the item at the position
\* that the same call on a Rows or Col over the same span returns, leaves
\* the same span and reports the same len(), so that the two agree on every
\* sequence of calls
MutableIteratorsFollowImmutable ==
    last.op \in IteratorCalls /\ old.iter.kind \in MutKinds =>
        LET r == ImmutableCall(AsImmutable(old.iter), last.op, last.a)
        IN  /\ ~last.panic
            /\ iter.kind \in MutKinds
            /\ last.out = r.item
            /\ SameSpan(iter, r.it)
            /\ MutLen(iter) = CallLen(r.it)

\* ------------------------------------------------ claims on deserialization
\* C30: visit_map never panics; it returns an error when num_cols * num_rows
\* overflows or differs from the length of data, and what it returns
\* otherwise, one dimension being zero and data empty included, is an error
\* or a grid with num_cols = 0 <=> num_rows = 0 and len = num_cols * num_rows
DeserializeNeverPanics ==
    last.op = "visit_map" =>
        /\ ~last.panic
        /\ (last.a * last.b >= Word \/ last.a * last.b # Len(last.arg)) => last.out = <<"Err">>
        /\ last.out # <<"Err">> =>
              /\ num_cols = 0 <=> num_rows = 0
              /\ len = num_cols * num_rows

\* ------------------------------------------------------ claims on disposal
RemoveCalls == {"remove_col", "pop_col"}
\* the removed column as it was, top to bottom; the elements out of the
\* drain so far; how often the value e is among them
RemovedColumn == [r \in 1..old.num_rows |-> old.data[(r - 1) * old.num_cols + last.a + 1]]
OutOfDrain == yielded \o dropped
TimesOut(e) == Cardinality({k \in 1..Len(OutOfDrain) : OutOfDrain[k] = e})
InDisposal == pc \in {"drain", "exhaust", "discard", "compact", "commit", "aborted"}

\* C27: while DropGuard::drop copies, and when it commits, nothing is left
\* in the drain and every element of the removed column has been yielded or
\* discarded; from remove_col to the commit the dimensions are the old ones
\* and the Vec's length is 0
DisposalIsOrdered ==
    /\ pc \in {"compact", "commit"} =>
          /\ drain.v_len = 0
          /\ \A r \in 1..old.num_rows : TimesOut(RemovedColumn[r]) = 1
    /\ InDisposal =>
          /\ len = 0
          /\ num_cols = old.num_cols
          /\ num_rows = old.num_rows

DisposalOrderWitness ==
    /\ pc = "compact"
    /\ cp.i = 2
    /\ last.panic
    /\ Len(yielded) = 1
    /\ Len(dropped) = 2

\* C28: when a disposal has ended, by an early drop, after the last
\* element, or unwinding from a drop that panicked, the copies and the
\* commit have run once: the grid is the old one less the column, one column
\* narrower; and at any time each element of the removed column has come
\* out of the drain at most once, and once when the disposal has ended
DisposalRunsOnce ==
    last.op \in RemoveCalls =>
        /\ \A r \in 1..old.num_rows : TimesOut(RemovedColumn[r]) <= 1
        /\ Len(OutOfDrain) <= old.num_rows
        /\ pc = "idle" =>
              /\ \A r \in 1..old.num_rows : TimesOut(RemovedColumn[r]) = 1
              /\ num_cols = old.num_cols - 1
              /\ num_rows = (IF num_cols = 0 THEN 0 ELSE old.num_rows)
              /\ len = num_cols * num_rows
              /\ \A c \in 0..(num_cols - 1), r \in 0..(num_rows - 1) :
                    data[r * num_cols + c + 1]
                        = old.data[r * old.num_cols + (IF c < last.a THEN c ELSE c + 1) + 1]

DisposalUnwindingWitness ==
    /\ pc = "idle"
    /\ last.op = "remove_col"
    /\ last.panic
    /\ old.num_rows = 3
    /\ Len(yielded) = 1
    /\ num_cols = 2

\* ------------------------------------------------- claims on the swap trace
\* the row 0, 1, .., n - 1, and the row a sort by `ord` is to leave of it
IdentityRow(n) == [i \in 1..n |-> i - 1]
\* the rows one swap away from the rows of S
OneSwap(S, n) ==
    {[row EXCEPT ![x] = row[y], ![y] = row[x]] : row \in S, x \in 1..n, y \in 1..n}
\* the rows that at most k swaps make of the row 0, .., n - 1
RECURSIVE WithinSwaps(_, _)
WithinSwaps(n, k) ==
    IF k = 0 THEN {IdentityRow(n)}
    ELSE LET S == WithinSwaps(n, k - 1) IN S \cup OneSwap(S, n)
\* for each length n and each k < n, the rows within k swaps of 0, .., n - 1
SwapDistance == [n \in 0..MaxPerm |-> [k \in 0..n |-> WithinSwaps(n, k)]]

\* the positions on the cycle of the ordering through position i, and the
\* number of cycles, fixed points included
RECURSIVE CycleFrom(_, _, _)
CycleFrom(ord, i, seen) ==
    IF i \in seen THEN seen ELSE CycleFrom(ord, ord[i] + 1, seen \cup {i})
CyclesOf(ord) == {CycleFrom(ord, i, {}) : i \in 1..Len(ord)}
NonFixed(ord) == {i \in 1..Len(ord) : ord[i] # i - 1}

TraceBuilt == last.op = "build_swap_trace"

\* C25: the swap trace of an ordering of n elements makes the row that the
\* ordering asks for, has n minus the number of cycles swaps, and no shorter
\* sequence of swaps makes that row; the trace of an ordering that is in
\* place already is empty
SwapTraceIsShortest ==
    TraceBuilt =>
        LET ord == last.arg
            n == Len(ord)
            trace == last.out
        IN  /\ ApplySwaps(IdentityRow(n), trace) = ord
            /\ Len(trace) = n - Cardinality(CyclesOf(ord))
            /\ Len(trace) > 0 => ord \notin SwapDistance[n][Len(trace) - 1]
            /\ ord = IdentityRow(n) => trace = <<>>

SwapTraceCycleWitness ==
    /\ TraceBuilt
    /\ Len(last.arg) = 5
    /\ Cardinality(CyclesOf(last.arg)) = 2
    /\ Len(last.out) = 3
    /\ NonFixed(last.arg) = 1..5

\* C26, as the claim states it: the trace has one swap for each position
\* that does not hold its final element
SwapTraceOnePerNonFixed ==
    TraceBuilt => Len(last.out) = Cardinality(NonFixed(last.arg))

\* C26: the trace has one swap for each position that does not hold its
\* final element, less one for each cycle of more than one position, whose
\* last swap puts two elements in place
SwapTraceOnePerNonFixedButLast ==
    TraceBuilt =>
        Len(last.out) = Cardinality(NonFixed(last.arg))
                            - Cardinality({c \in CyclesOf(last.arg) : Cardinality(c) > 1})

SwapTraceTwoCycleWitness ==
    /\ TraceBuilt
    /\ last.arg = <<1, 0>>
    /\ Len(last.out) = 1

\* ------------------------------------------------ claims on row operations
RowPairCalls == {"row_pair_mut", "view_mut.row_pair_mut"}
SwapRowsCalls == {"swap_rows", "view_mut.swap_rows", "default.swap_rows"}
\* the span of row r of the area the last call was made on
RowSpan(r) == Slice(old.area.data.start + r * old.area.main_cols, old.area.num_cols)
Disjoint(a, b) == a.start + a.len <= b.start \/ b.start + b.len <= a.start

\* C21: row_pair_mut(r1, r2) panics exactly when r1 = r2 or an index is not
\* below num_rows; otherwise it returns the span of row r1 and then the span
\* of row r2, each num_cols long, and the two spans do not overlap
RowPairMutGivesDisjointRows ==
    last.op \in RowPairCalls =>
        /\ last.panic <=>
              (last.a = last.b \/ last.a >= old.area.num_rows \/ last.b >= old.area.num_rows)
        /\ ~last.panic =>
              /\ last.out[1] = Some(RowSpan(last.a))
              /\ last.out[2] = Some(RowSpan(last.b))
              /\ last.out[1].len = old.area.num_cols
              /\ Disjoint(last.out[1], last.out[2])
              /\ last.out[1].start + last.out[1].len <= old.area.data.start + old.area.data.len
              /\ last.out[2].start + last.out[2].len <= old.area.data.start + old.area.data.len

RowPairMutWitness ==
    /\ last.op = "view_mut.row_pair_mut"
    /\ ~last.panic
    /\ last.a > last.b
    /\ old.area.main_cols > old.area.num_cols

\* C22: swap_rows(r1, r2) panics whenever r1 or r2 is not below num_rows, in
\* the implementation of TooDee, of TooDeeViewMut and of the trait
SwapRowsPanicsOutOfBounds ==
    last.op \in SwapRowsCalls
        /\ (last.a >= old.area.num_rows \/ last.b >= old.area.num_rows) => last.panic

\* ------------------------------------------------- claims on translate
Wrapped == last.op = "translate_with_wrap" /\ num_cols > 0
Filled == last.op = "translate_with_fill" /\ num_cols > 0
Cols == 0..(num_cols - 1)
Rows == 0..(num_rows - 1)

\* C3: translate_with_wrap(col_adj, row_adj) moves the value of every cell
\* (c, r) to ((c + col_adj) mod cols, (r + row_adj) mod rows).
TranslateMovesEveryCell ==
    Wrapped =>
        \A c \in Cols, r \in Rows :
            NewCell((c + last.a) % num_cols, (r + last.b) % num_rows) = OldCell(c, r)

\* C4: after translate_with_wrap(col_shift, row_shift) cell (c, r) holds the
\* old value of ((c + col_shift) mod cols, (r + row_shift) mod rows), so
\* that column col_shift becomes column 0 and row row_shift row 0.
TranslateBringsShiftToOrigin ==
    Wrapped =>
        \A c \in Cols, r \in Rows :
            NewCell(c, r) = OldCell((c + last.a) % num_cols, (r + last.b) % num_rows)

\* C5: translate_with_wrap(a, b) followed by translate_with_wrap(cols - a,
\* rows - b), each taken modulo its extent, restores the buffer.
TranslateRoundTrip ==
    Wrapped =>
        TranslateWithWrapData(data, num_cols, num_rows,
                              (num_cols - last.a) % num_cols,
                              (num_rows - last.b) % num_rows) = old.data

\* C6: after translate_with_fill(col_adj, row_adj, fill) a cell whose
\* content would have come around an edge holds fill, and every other cell
\* (c, r) holds the old value of (c - col_adj, r - row_adj); with a shift as
\* large as the extent, every cell holds fill.
TranslateFillsWrappedCells ==
    Filled =>
        \A c \in Cols, r \in Rows :
            NewCell(c, r) =
                (IF c - last.a \in Cols /\ r - last.b \in Rows
                 THEN OldCell(c - last.a, r - last.b)
                 ELSE last.arg[1])

KeyOf(v) == last.arg[v + 1]
RowIsSorted(r) == \A c \in 0..(num_cols - 2) : KeyOf(NewCell(c, r)) <= KeyOf(NewCell(c + 1, r))
ColIsSorted(c) == \A r \in 0..(num_rows - 2) : KeyOf(NewCell(c, r)) <= KeyOf(NewCell(c, r + 1))
ColumnsPermuted == \E p \in Perms(Cols) : \A j \in Cols, y \in Rows : NewCell(j, y) = OldCell(p[j], y)
RowsPermuted == \E p \in Perms(Rows) : \A x \in Cols, j \in Rows : NewCell(x, j) = OldCell(x, p[j])

\* C8: after sort_by_row(r, cmp) row r does not decrease under cmp and the
\* area is the old one with whole columns permuted; after sort_by_col(c,
\* cmp) column c does not decrease and whole rows are permuted.
SortPermutesWholeLines ==
    /\ last.op = "sort_by_row" => RowIsSorted(last.a) /\ ColumnsPermuted
    /\ last.op = "sort_by_col" => ColIsSorted(last.a) /\ RowsPermuted

\* a row of three cells whose keys fall was sorted, with a row under it
SortByRowWitness ==
    /\ last.op = "sort_by_row"
    /\ num_cols = 3 /\ num_rows = 2 /\ last.a = 0
    /\ KeyOf(0) > KeyOf(1) /\ KeyOf(0) > KeyOf(2)
    /\ data # old.data

\* C9: sort_by_col_key(col, f) and sort_unstable_by_col_key(col, f) leave
\* column col not decreasing by f, with whole rows permuted, for every
\* shape of the area; the stable one gives what sort_by_col(col, |a, b|
\* f(a).cmp(&f(b))) gives.
SortByColKeySortsColumn ==
    last.op \in {"sort_by_col_key", "sort_unstable_by_col_key"} =>
        /\ ~last.panic
        /\ ColIsSorted(last.a)
        /\ RowsPermuted
        /\ last.op = "sort_by_col_key" =>
              data = SortByColData(old.data, num_cols, num_rows, last.a, last.arg)

====
